---- MODULE Spec2Model ----
(***************************************************************************)
(* git-pile: the genbranch commit cache (genbranch_caching.py) and the     *)
(* genbranch operation (genbranch.py) as state machines.                   *)
(*                                                                         *)
(* A commit is the record [base, chain]: the baseline commit it descends   *)
(* from and, oldest first, the patches applied on top of it, each with the *)
(* committer that applied it and the way it was applied.  Two commits are  *)
(* the same object exactly when these agree, which is what git's content   *)
(* addressing gives under --committer-date-is-author-date.                 *)
(***************************************************************************)
EXTENDS Integers, Sequences, FiniteSets, TLC

\* ------------------------------------------------------------ bounds
MaxUpdates == 2     \* update calls in one behaviour
MaxPath == 4        \* longest series of the stepwise search
MaxRuns == 2        \* genbranch runs in one behaviour
MaxCalls == 2       \* update calls on one QuotientSpaceBuilder
MaxRevs == 4        \* commits of the pile branch
MaxPatches == 3     \* patches in the list of a subcommand

SCHEMA_VERSION == 2

\* ------------------------------------------------------------ values
Patches == {"p", "q"}
BaseCommits == {"B1", "B2"}          \* B1 is the parent of B2
BaselineArgs == {"B1", "main"}       \* a commit id, or a symbolic revision

\* output of "git var GIT_COMMITTER_IDENT": name, email, date, timezone
IdentStrings ==
    { <<"Ann", "<a@x>", "1700000000", "+0000">>,
      <<"Ann", "<a@x>", "1800000000", "+0100">>,
      <<"Bob", "<b@x>", "1700000000", "+0000">> }

Range(s) == {s[i] : i \in DOMAIN s}

SeqsUpTo(S, n) == UNION {[1..k -> S] : k \in 0..n}

\* the patch series of a pile: its patch files, each with its own content
Series ==
    {s \in SeqsUpTo(Patches, Cardinality(Patches)) :
        \A i, j \in DOMAIN s : s[i] = s[j] => i = j}

NoCommit == [base |-> "", chain |-> <<>>]

Rev(name) == [base |-> name, chain |-> <<>>]

\* git rev-parse: a symbolic revision names the commit the ref points at
Resolve(c, ref) == IF c.base = "main" THEN [c EXCEPT !.base = ref] ELSE c

\* git am of one patch on parent, committed by ident
AmCommit(parent, patch, ident, how) ==
    [parent EXCEPT !.chain = Append(@, [h |-> patch, by |-> ident, how |-> how])]

RECURSIVE AmSeries(_, _, _)
AmSeries(parent, hashes, ident) ==
    IF hashes = <<>> THEN parent
    ELSE AmSeries(AmCommit(parent, Head(hashes), ident, "am"), Tail(hashes), ident)

\* git rev-list --reverse baseline..head, B1 being the parent of B2
RevList(baseline, head, ref) ==
    LET b == Resolve(Rev(baseline), ref)
        own == [i \in 1..Len(head.chain) |->
                   [base |-> head.base, chain |-> SubSeq(head.chain, 1, i)]]
    IN  IF b.base = "B1" /\ head.base = "B2" THEN <<Rev("B2")>> \o own ELSE own

\* the probe never fails
Probe_AlwaysThere(c, gone, ref) == TRUE

\* git cat-file -e
Probe(c, gone, ref) == Resolve(c, ref) \notin gone

\* ------------------------------------------------------------ _Node trees
\* A tree is a function from paths (the keys from the root down) to nodes;
\* a node holds its commit and its children's keys in dict insertion order.
IsPrefix(p, q) == Len(p) <= Len(q) /\ SubSeq(q, 1, Len(p)) = p

NewNode(commit) == [commit |-> commit, children |-> <<>>]

EmptyTree == [p \in {<< >>} |-> NewNode(NoCommit)]

\* the new node takes the place of all the children of its parent
SetChild_Alone(tree, parent, key, commit) ==
    LET child == Append(parent, key)
        keep == {p \in DOMAIN tree : ~IsPrefix(parent, p) \/ p = parent}
    IN  [p \in keep \cup {child} |->
            IF p = child THEN NewNode(commit)
            ELSE IF p = parent
                 THEN [tree[p] EXCEPT !.children = <<key>>]
                 ELSE tree[p]]

\* node.children[key] = _Node(commit)
SetChild(tree, parent, key, commit) ==
    LET child == Append(parent, key)
        keep == {p \in DOMAIN tree : ~IsPrefix(child, p)}
        had == key \in Range(tree[parent].children)
    IN  [p \in keep \cup {child} |->
            IF p = child THEN NewNode(commit)
            ELSE IF p = parent /\ ~had
                 THEN [tree[p] EXCEPT !.children = Append(@, key)]
                 ELSE tree[p]]

\* rsplit(maxsplit=1)[0]: only the timezone is dropped
StripDate_KeepDate(s) == SubSeq(s, 1, IF Len(s) > 1 THEN Len(s) - 1 ELSE 1)

\* rsplit(maxsplit=2)[0]: the identity string without its last two fields
StripDate(s) == SubSeq(s, 1, IF Len(s) > 2 THEN Len(s) - 2 ELSE 1)

\* ------------------------------------------------------------ update
\* a node is made only where none is cached
NeedsNode_MissingOnly(tree, child, commit) == child \notin DOMAIN tree

\* no node for the patch, or a node that holds another commit
NeedsNode(tree, child, commit) ==
    child \notin DOMAIN tree \/ tree[child].commit # commit

RECURSIVE UpdateWalk(_, _, _, _)
UpdateWalk(tree, path, hashes, commits) ==
    IF hashes = <<>> \/ commits = <<>> THEN tree
    ELSE LET child == Append(path, Head(hashes))
             t2 == IF NeedsNode(tree, child, Head(commits))
                   THEN SetChild(tree, path, Head(hashes), Head(commits))
                   ELSE tree
         IN  UpdateWalk(t2, child, Tail(hashes), Tail(commits))

\* the node of the baseline is made anew on every call
UpdateTree_FreshBaseline(tree, baseline, hashes, commits) ==
    UpdateWalk(SetChild(tree, << >>, baseline, Rev(baseline)), <<baseline>>,
               hashes, commits)

UpdateTree(tree, baseline, hashes, commits) ==
    LET t1 == IF <<baseline>> \notin DOMAIN tree
              THEN SetChild(tree, << >>, baseline, Rev(baseline))
              ELSE tree
    IN  UpdateWalk(t1, <<baseline>>, hashes, commits)

\* ------------------------------------------------------------ search_best_base
RECURSIVE CollectNodes(_, _, _, _)
CollectNodes(tree, path, hashes, nodes) ==
    IF hashes = <<>> THEN nodes
    ELSE LET child == Append(path, Head(hashes))
         IN  IF child \in DOMAIN tree
             THEN CollectNodes(tree, child, Tail(hashes), Append(nodes, tree[child].commit))
             ELSE nodes

\* the search starts above the baseline
BisectInit_AboveBaseline(nodes) ==
    [base |-> IF Len(nodes) > 1 THEN 1 ELSE 0, head |-> Len(nodes) - 1, probed |-> {}]

\* base = 0; head = len(nodes) - 1
BisectInit(nodes) == [base |-> 0, head |-> Len(nodes) - 1, probed |-> {}]

\* the midpoint rounded down
BisectStep_Floor(nodes, st, gone, ref) ==
    LET i == (st.base + st.head) \div 2
    IN  IF Probe(nodes[i + 1], gone, ref)
        THEN [st EXCEPT !.base = i, !.probed = @ \cup {i}]
        ELSE [st EXCEPT !.head = i - 1, !.probed = @ \cup {i}]

\* one iteration of the while loop; nodes[i] of the code is nodes[i + 1] here
BisectStep(nodes, st, gone, ref) ==
    LET i == (st.base + st.head + 1) \div 2
    IN  IF Probe(nodes[i + 1], gone, ref)
        THEN [st EXCEPT !.base = i, !.probed = @ \cup {i}]
        ELSE [st EXCEPT !.head = i - 1, !.probed = @ \cup {i}]

RECURSIVE BisectLoop(_, _, _, _)
BisectLoop(nodes, st, gone, ref) ==
    IF st.base < st.head
    THEN BisectLoop(nodes, BisectStep(nodes, st, gone, ref), gone, ref)
    ELSE st

SearchNodes(tree, baseline, hashes) ==
    CollectNodes(tree, <<baseline>>, hashes, <<tree[<<baseline>>].commit>>)

SearchBestBase(tree, baseline, hashes, gone, ref) ==
    IF <<baseline>> \notin DOMAIN tree
    THEN [commit |-> Rev(baseline), offset |-> 0]
    ELSE LET nodes == SearchNodes(tree, baseline, hashes)
             st == BisectLoop(nodes, BisectInit(nodes), gone, ref)
         IN  [commit |-> nodes[st.base + 1], offset |-> st.base]

\* ------------------------------------------------------------ pickling
\* the node's attributes are lost
Entry_DropCommit(t, key, commit) == [t |-> t, key |-> key, commit |-> NoCommit]

Entry(t, key, commit) == [t |-> t, key |-> key, commit |-> commit]

\* __flatten_tree: stack entries are [node, children_keys, child_idx]
RECURSIVE FlattenLoop(_, _, _)
FlattenLoop(tree, stack, flat) ==
    IF stack = <<>> THEN flat
    ELSE LET n == Len(stack)
             top == stack[n]
         IN  IF top.idx = -1
             THEN FlattenLoop(tree, [stack EXCEPT ![n].idx = 0],
                              Append(flat, Entry("node-start", "", tree[top.node].commit)))
             ELSE IF top.idx < Len(top.keys)
             THEN LET child_key == top.keys[top.idx + 1]
                      child == Append(top.node, child_key)
                  IN  FlattenLoop(tree,
                                  Append([stack EXCEPT ![n].idx = @ + 1],
                                         [node |-> child, keys |-> tree[child].children, idx |-> -1]),
                                  Append(flat, Entry("node-child", child_key, NoCommit)))
             ELSE FlattenLoop(tree, SubSeq(stack, 1, n - 1),
                              Append(flat, Entry("node-end", "", NoCommit)))

FlattenTree(tree) ==
    FlattenLoop(tree, <<[node |-> << >>, keys |-> tree[<< >>].children, idx |-> -1]>>, <<>>)

\* __unflatten_tree: the stack holds nodes (their paths) and pending child keys
RECURSIVE UnflattenLoop(_, _, _)
UnflattenLoop(tree, stack, rest) ==
    IF rest = <<>> THEN tree
    ELSE LET e == Head(rest)
             n == Len(stack)
         IN  IF e.t = "node-start"
             THEN LET child_key == stack[n].key
                      parent == stack[n - 1].node
                  IN  UnflattenLoop(SetChild(tree, parent, child_key, e.commit),
                                    Append(SubSeq(stack, 1, n - 1),
                                           [isKey |-> FALSE, key |-> "", node |-> Append(parent, child_key)]),
                                    Tail(rest))
             ELSE IF e.t = "node-child"
             THEN UnflattenLoop(tree, Append(stack, [isKey |-> TRUE, key |-> e.key, node |-> << >>]),
                                Tail(rest))
             ELSE UnflattenLoop(tree, SubSeq(stack, 1, n - 1), Tail(rest))

UnflattenTree(flat) ==
    UnflattenLoop([p \in {<< >>} |-> NewNode(flat[1].commit)],
                  <<[isKey |-> FALSE, key |-> "", node |-> << >>]>>,
                  Tail(flat))

\* __getstate__ / __setstate__
GetState(trees) == [k \in DOMAIN trees |-> FlattenTree(trees[k])]
SetState(state) == [k \in DOMAIN state |-> UnflattenTree(state[k])]

\* ------------------------------------------------------------ the cache file
NoTrees == [k \in {} |-> EmptyTree]

FileMissing == [kind |-> "missing", schema |-> 0, data |-> NoTrees]
FileGarbage == [kind |-> "garbage", schema |-> 0, data |-> NoTrees]
FilePartial == [kind |-> "partial", schema |-> 0, data |-> NoTrees]
Pickle(schema, trees) == [kind |-> "pickle", schema |-> schema, data |-> GetState(trees)]

\* the schema version is not compared
Load_AnySchema(f) == IF f.kind = "pickle" THEN SetState(f.data) ELSE NoTrees

\* _CacheData.load
Load(f) ==
    IF f.kind = "pickle" /\ f.schema = SCHEMA_VERSION THEN SetState(f.data) ELSE NoTrees

\* GenbranchCache.__init__: the trees after loading, the identity's tree added
WithIdent(trees, ident) ==
    IF ident \in DOMAIN trees THEN trees
    ELSE [k \in DOMAIN trees \cup {ident} |-> IF k = ident THEN EmptyTree ELSE trees[k]]

\* ------------------------------------------------------------ genbranch values
\* what the committer identity of a genbranch run is
GenIdent == <<"Ann", "<a@x>", "1700000000", "+0000">>

\* pile.baseline()
GenBaseline == "B1"

\* How a patch file fares: "clean" applies with git am, "fuzzy" only with
\* git apply --reject --recount, "patch" only with patch -p1, "stuck" with
\* none of them.
PatchKind(h) ==
    CASE h = "f" -> "fuzzy"
      [] h = "g" -> "patch"
      [] h = "x" -> "stuck"
      [] OTHER -> "clean"

\* the piles genbranch is run on
GenSeries ==
    { << >>, <<"p", "q", "r">>, <<"p", "f", "q">>, <<"g", "x">> }

\* The command line and configuration of a run.  An option the code does not
\* read in a mode has its default there: --fix-whitespace and
\* committer-date-is-author-date under --dirty, --fuzzy outside in-place git am
\* runs, --force and the checkout of the branch elsewhere in in-place runs.
GenArgs ==
    {a \in [inplace : BOOLEAN, dirty : BOOLEAN, use_cache : BOOLEAN, fix_ws : BOOLEAN,
            cdiad : BOOLEAN, blocked : BOOLEAN, force : BOOLEAN,
            fuzzy : {"yes", "no", "none"}] :
        /\ a.dirty => (~a.fix_ws /\ a.cdiad)
        /\ (a.dirty \/ ~a.inplace) => a.fuzzy = "none"
        /\ a.inplace => (~a.blocked /\ ~a.force)
        /\ a.force => a.blocked}

\* no reason not to cache, lines 81-88
CacheAllowed(a) == a.cdiad /\ ~a.fix_ws

\* the way apply_cmd makes a commit
How(a) ==
    CASE a.cdiad /\ ~a.fix_ws -> "am"
      [] a.cdiad /\ a.fix_ws -> "am-wsfix"
      [] ~a.cdiad /\ ~a.fix_ws -> "am-now"
      [] OTHER -> "am-wsfix-now"

\* how many patches at the head of the list git am applies before it stops
RECURSIVE CleanPrefix(_)
CleanPrefix(patchlist) ==
    IF patchlist = << >> \/ PatchKind(Head(patchlist)) # "clean" THEN 0
    ELSE 1 + CleanPrefix(Tail(patchlist))

\* git am of the patches one after the other, each committed the same way
RECURSIVE GitAm(_, _, _, _)
GitAm(parent, patchlist, ident, how) ==
    IF patchlist = << >> THEN parent
    ELSE GitAm(AmCommit(parent, Head(patchlist), ident, how), Tail(patchlist), ident, how)

\* every patch is passed to git again
Remaining_NoSkip(patchlist, offset) == patchlist

\* patchlist[patchlist_offset:]
Remaining(patchlist, offset) == SubSeq(patchlist, offset + 1, Len(patchlist))

\* the cache is updated whenever there is one
ShouldUpdate_IgnoreFallback(live, any_fallback) == live

\* if cache and not any_fallback
ShouldUpdate(live, any_fallback) == live /\ ~any_fallback

\* the branch is never found checked out
BranchInUse_Never(a) == FALSE

\* if path and not args.force
BranchInUse(a) == a.blocked /\ ~a.force

\* without --fuzzy and --no-fuzzy, and off a terminal, the fallbacks are tried
ShouldTryFuzzy_YesOffTerminal(fuzzy, tty, answer) ==
    IF fuzzy # "none" THEN fuzzy
    ELSE IF tty THEN (IF answer THEN "yes" ELSE "no") ELSE "yes"

\* should_try_fuzzy: args.fuzzy as the call leaves it, which is what it
\* returns; answer is what prompt_yesno returns
ShouldTryFuzzy(fuzzy, tty, answer) ==
    IF fuzzy # "none" THEN fuzzy
    ELSE IF tty THEN (IF answer THEN "yes" ELSE "no") ELSE "no"

\* the loop goes on whatever the counter says
Stalled_Never(out0, out1) == FALSE

\* if out1 == out0: break
Stalled(out0, out1) == out1 = out0

NoArgs ==
    [inplace |-> FALSE, dirty |-> FALSE, use_cache |-> FALSE, fix_ws |-> FALSE,
     cdiad |-> TRUE, blocked |-> FALSE, force |-> FALSE, fuzzy |-> "none"]

\* What is kept of the run before.  It is kept of a run that used the cache,
\* found it empty and was free to apply its patches; of any other, nothing.
NoPrev ==
    [kept |-> FALSE, args |-> NoArgs, series |-> << >>, created |-> 0, applied |-> 0,
     head |-> NoCommit, exit |-> "none"]

NoRun ==
    [pc |-> "idle", n |-> 0, args |-> NoArgs, fuzzy |-> "none", series |-> << >>,
     file0 |-> FileMissing, offset |-> 0, patchlist |-> << >>, next |-> 1, ret |-> 0,
     head |-> NoCommit, any_fallback |-> FALSE, warned |-> {}, created |-> 0,
     applied |-> 0, updated |-> FALSE, exit |-> "none", rebase |-> FALSE,
     checked |-> FALSE, prompts |-> 0, tried |-> FALSE, stdin |-> "unread",
     prev |-> NoPrev]

\* ------------------------------------------------------------ qspace.py
\* the items a QuotientSpaceBuilder is fed with
Items == {"a", "b", "c"}

\* the argument tuples of update(): one item or more
ItemTuples == SeqsUpTo(Items, Cardinality(Items)) \ {<< >>}

\* QuotientSpaceBuilder.__graph, a dict: its keys in insertion order and the
\* list each key maps to
EmptyGraph == [keys |-> << >>, adj |-> [k \in {} |-> << >>]]

\* self.__graph[a].append(b), the key added first if it is new
AddEdge(g, a, b) ==
    IF a \in DOMAIN g.adj
    THEN [g EXCEPT !.adj[a] = Append(@, b)]
    ELSE [keys |-> Append(g.keys, a),
          adj |-> [k \in DOMAIN g.adj \cup {a} |-> IF k = a THEN <<b>> ELSE g.adj[k]]]

RECURSIVE AddPairs(_, _)
\* the for loop over itertools.pairwise
AddPairs(g, seq) ==
    IF Len(seq) < 2 THEN g
    ELSE AddPairs(AddEdge(g, seq[1], seq[2]), Tail(seq))

\* the items are linked as a path, the last not back to the first
AddCycle_Open(g, items) == AddPairs(g, items)

\* __add_cycle: an edge from each item to the next and from the last to the first
AddCycle(g, items) == AddPairs(g, Append(items, items[1]))

RECURSIVE Walk(_, _, _, _)
\* the while loop of build(): q is the deque, popped at its right end
Walk(g, q, idx, cur) ==
    IF q = << >> THEN idx
    ELSE LET item == q[Len(q)]
             idx2 == [x \in DOMAIN idx \cup {item} |-> IF x = item THEN cur ELSE idx[x]]
             children == IF item \in DOMAIN g.adj
                         THEN SelectSeq(g.adj[item], LAMBDA c : c \notin DOMAIN idx2)
                         ELSE << >>
         IN  Walk(g, SubSeq(q, 1, Len(q) - 1) \o children, idx2, cur)

RECURSIVE BuildLoop(_, _, _, _)
\* the for loop of build() over the keys of the graph
BuildLoop(g, keys, idx, cur) ==
    IF keys = << >> THEN idx
    ELSE IF Head(keys) \in DOMAIN idx THEN BuildLoop(g, Tail(keys), idx, cur)
    ELSE BuildLoop(g, Tail(keys), Walk(g, <<Head(keys)>>, idx, cur), cur + 1)

\* QuotientSpaceBuilder.build: the idx_map of the QuotientSpace
Build(g) == BuildLoop(g, g.keys, [x \in {} |-> 0], 0)

\* max(self.__idx_map.values()), which raises ValueError on an empty map
MaxIdx(idx) == CHOOSE m \in {idx[x] : x \in DOMAIN idx} : \A x \in DOMAIN idx : idx[x] <= m

\* QuotientSpace.generate_sets: the list of sets, here from index 0, or the
\* ValueError
GenerateSets(idx) ==
    IF DOMAIN idx = {} THEN [raised |-> TRUE, sets |-> [i \in {} |-> {}]]
    ELSE [raised |-> FALSE,
          sets |-> [i \in 0..MaxIdx(idx) |-> {x \in DOMAIN idx : idx[x] = i}]]

\* ------------------------------------------------------------ git-merge-range values
\* gitutil.CommitData
CommitData(sha1, subject, metadata, filtered_diff) ==
    [sha1 |-> sha1, subject |-> subject, metadata |-> metadata,
     filtered_diff |-> filtered_diff]

\* The commits of the ranges.  B' is B with another diff, B'' is B with
\* another author or message, A2 is a copy of A (the same patch committed
\* again); the others differ in everything.
CommitOf(sha1) ==
    CASE sha1 = "A" -> CommitData("A", "a", "m", "a")
      [] sha1 = "A2" -> CommitData("A2", "a", "m", "a")
      [] sha1 = "B" -> CommitData("B", "b", "m", "b")
      [] sha1 = "B'" -> CommitData("B'", "b", "m", "b'")
      [] sha1 = "B''" -> CommitData("B''", "b", "n", "b")
      [] sha1 = "C" -> CommitData("C", "c", "m", "c")
      [] OTHER -> CommitData("D", "d", "m", "d")

\* the base ranges
BaseRanges == { << >>, <<"B">>, <<"A", "B">>, <<"B", "C">>, <<"A", "B", "C">> }

\* r without its i-th element
DropAt(r, i) == SubSeq(r, 1, i - 1) \o SubSeq(r, i + 1, Len(r))

\* What a branch makes of the range r: nothing, B amended, a commit dropped,
\* D added at the end, A's patch committed again at the end, A replaced by
\* its copy.
Edits(r) ==
    {r}
        \cup {[r EXCEPT ![i] = v] : i \in {j \in DOMAIN r : r[j] = "B"}, v \in {"B'", "B''"}}
        \cup {DropAt(r, i) : i \in DOMAIN r}
        \cup {Append(r, "D"), Append(r, "A2")}
        \cup {[r EXCEPT ![i] = "A2"] : i \in {j \in DOMAIN r : r[j] = "A"}}

\* Git.commit_list of a range
CommitList(r) == [i \in DOMAIN r |-> CommitOf(r[i])]

RECURSIVE MatchesOf(_, _)
\* the inner loop of find_matching_commits: the commits of bs with a's
\* subject that are a itself or have its metadata and its filtered diff
MatchesOf(a, bs) ==
    IF bs = << >> THEN << >>
    ELSE LET b == Head(bs)
             hit == /\ b.subject = a.subject
                    /\ \/ a.sha1 = b.sha1
                       \/ a.metadata = b.metadata /\ a.filtered_diff = b.filtered_diff
         IN  (IF hit THEN << <<a, b>> >> ELSE << >>) \o MatchesOf(a, Tail(bs))

RECURSIVE FindMatchingCommits(_, _)
FindMatchingCommits(commits_a, commits_b) ==
    IF commits_a = << >> THEN << >>
    ELSE MatchesOf(Head(commits_a), commits_b)
             \o FindMatchingCommits(Tail(commits_a), commits_b)

RECURSIVE Keys(_, _)
\* the keys of the dict built from the sequence, in insertion order
Keys(seq, seen) ==
    IF seq = << >> THEN << >>
    ELSE IF Head(seq) \in seen THEN Keys(Tail(seq), seen)
    ELSE <<Head(seq)>> \o Keys(Tail(seq), seen \cup {Head(seq)})

\* the sha1 of each commit
Sha1s(commits) == [i \in DOMAIN commits |-> commits[i].sha1]

\* the keys of self.__commit_map
CommitMapKeys(current, base, other) ==
    Keys(Sha1s(current) \o Sha1s(base) \o Sha1s(other), {})

RECURSIVE UpdateAll(_, _)
\* qs_builder.update for each tuple in turn (the test on the new graph is
\* always true: it makes TLC compute each graph before the next update)
UpdateAll(g, tuples) ==
    IF tuples = << >> THEN g
    ELSE LET updated == AddCycle(g, Head(tuples))
         IN  IF Head(tuples)[1] \in DOMAIN updated.adj
             THEN UpdateAll(updated, Tail(tuples))
             ELSE updated

\* the update calls of __build_qspace
QspaceCalls(current, base, other) ==
    LET pairs == FindMatchingCommits(base, current)
                     \o FindMatchingCommits(base, other)
                     \o FindMatchingCommits(current, other)
        keys == CommitMapKeys(current, base, other)
    IN  [i \in DOMAIN pairs |-> <<pairs[i][1].sha1, pairs[i][2].sha1>>]
            \o [i \in DOMAIN keys |-> <<keys[i]>>]

\* __build_qspace: the index map of self.__qs
BuildQspace(current, base, other) ==
    Build(UpdateAll(EmptyGraph, QspaceCalls(current, base, other)))

\* ------------------------------------------------------------ git merge-file
\* A line of a file handed to or printed by git merge-file: str(i) of an
\* index ("index"), the empty line ("empty"), or one of the four markers
\* "<<<<<<< CURRENT", "||||||| BASE", "=======", ">>>>>>> OTHER".
Line(k, n) == [k |-> k, n |-> n]

\* print("\n".join(lines), file=f): the empty list gives one empty line
IndexLines(index_list) ==
    IF index_list = << >> THEN <<Line("empty", 0)>>
    ELSE [i \in DOMAIN index_list |-> Line("index", index_list[i])]

\* s[i .. i+n-1] counting from 0, as xdiff counts
Slice(s, i, n) == SubSeq(s, i + 1, i + n)

\* the pairs of equal lines that keep their order
Chains(O, A) ==
    {S \in SUBSET {p \in (DOMAIN O) \X (DOMAIN A) : O[p[1]] = A[p[2]]} :
        \A p, q \in S : p # q =>
            \/ p[1] < q[1] /\ p[2] < q[2]
            \/ q[1] < p[1] /\ q[2] < p[2]}

\* xdl_diff gives a minimal edit script; which one, among those that keep
\* as many lines as can be kept, is left open
Alignments(O, A) ==
    LET all == Chains(O, A)
    IN  {S \in all : \A T \in all : Cardinality(T) <= Cardinality(S)}

RECURSIVE SortedPairs(_)
SortedPairs(S) ==
    IF S = {} THEN << >>
    ELSE LET p == CHOOSE x \in S : \A y \in S : x[1] <= y[1]
         IN  <<p>> \o SortedPairs(S \ {p})

\* the changes (xdchange_t) between the kept lines
Script(O, A, S) ==
    LET ps == << <<0, 0>> >> \o SortedPairs(S) \o << <<Len(O) + 1, Len(A) + 1>> >>
        hunks == [k \in 1..(Len(ps) - 1) |->
                     [i1 |-> ps[k][1], chg1 |-> ps[k + 1][1] - ps[k][1] - 1,
                      i2 |-> ps[k][2], chg2 |-> ps[k + 1][2] - ps[k][2] - 1]]
        changed(h) == h.chg1 + h.chg2 > 0
    IN  SelectSeq(hunks, changed)

\* xdl_append_merge, joining as well a region that starts one line after
\* the region before
XdlAppendMerge_JoinNear(c, mode, i0, chg0, i1, chg1, i2, chg2) ==
    IF c # << >> /\ (i1 <= c[Len(c)].i1 + c[Len(c)].chg1 + 1 \/ i2 <= c[Len(c)].i2 + c[Len(c)].chg2 + 1)
    THEN LET m == c[Len(c)]
         IN  [c EXCEPT ![Len(c)] =
                 [mode |-> IF mode # m.mode THEN 0 ELSE m.mode,
                  i0 |-> m.i0, chg0 |-> i0 + chg0 - m.i0,
                  i1 |-> m.i1, chg1 |-> i1 + chg1 - m.i1,
                  i2 |-> m.i2, chg2 |-> i2 + chg2 - m.i2]]
    ELSE Append(c, [mode |-> mode, i0 |-> i0, chg0 |-> chg0,
                    i1 |-> i1, chg1 |-> chg1, i2 |-> i2, chg2 |-> chg2])

\* xdl_append_merge
XdlAppendMerge(c, mode, i0, chg0, i1, chg1, i2, chg2) ==
    IF c # << >> /\ (i1 <= c[Len(c)].i1 + c[Len(c)].chg1 \/ i2 <= c[Len(c)].i2 + c[Len(c)].chg2)
    THEN LET m == c[Len(c)]
         IN  [c EXCEPT ![Len(c)] =
                 [mode |-> IF mode # m.mode THEN 0 ELSE m.mode,
                  i0 |-> m.i0, chg0 |-> i0 + chg0 - m.i0,
                  i1 |-> m.i1, chg1 |-> i1 + chg1 - m.i1,
                  i2 |-> m.i2, chg2 |-> i2 + chg2 - m.i2]]
    ELSE Append(c, [mode |-> mode, i0 |-> i0, chg0 |-> chg0,
                    i1 |-> i1, chg1 |-> chg1, i2 |-> i2, chg2 |-> chg2])

\* the region of two changes that touch or overlap and are not the same
\* change (mode 0: conflict)
ConflictRegion(c, x, y) ==
    LET off == x.i1 - y.i1
        ffo == off + x.chg1 - y.chg1
        i0 == IF off > 0 THEN x.i1 - off ELSE x.i1
        i1 == IF off > 0 THEN x.i2 - off ELSE x.i2
        i2 == IF off > 0 THEN y.i2 ELSE y.i2 + off
        chg0 == x.i1 + x.chg1 - i0
        chg1 == x.i2 + x.chg2 - i1
        chg2 == y.i2 + y.chg2 - i2
    IN  IF ffo < 0
        THEN XdlAppendMerge(c, 0, i0, chg0 - ffo, i1, chg1 - ffo, i2, chg2)
        ELSE XdlAppendMerge(c, 0, i0, chg0, i1, chg1, i2, chg2 + ffo)

RECURSIVE XdlDoMergeLoop(_, _, _, _, _, _, _, _)
\* the loops of xdl_do_merge over the changes s1 of ours (A) and s2 of
\* theirs (B) against the base O, from the a-th and the b-th change on
XdlDoMergeLoop(O, A, B, s1, s2, a, b, c) ==
    IF a <= Len(s1) /\ b <= Len(s2)
    THEN LET x == s1[a]
             y == s2[b]
             e1 == x.i1 + x.chg1
             e2 == y.i1 + y.chg1
             same == /\ x.i1 = y.i1 /\ x.chg1 = y.chg1 /\ x.chg2 = y.chg2
                     /\ Slice(A, x.i2, x.chg2) = Slice(B, y.i2, y.chg2)
         IN  IF e1 < y.i1
             THEN XdlDoMergeLoop(O, A, B, s1, s2, a + 1, b,
                      XdlAppendMerge(c, 1, x.i1, x.chg1, x.i2, x.chg2,
                                     y.i2 - y.i1 + x.i1, x.chg1))
             ELSE IF e2 < x.i1
             THEN XdlDoMergeLoop(O, A, B, s1, s2, a, b + 1,
                      XdlAppendMerge(c, 2, y.i1, y.chg1, x.i2 - x.i1 + y.i1, y.chg1,
                                     y.i2, y.chg2))
             ELSE XdlDoMergeLoop(O, A, B, s1, s2,
                      IF e2 >= e1 THEN a + 1 ELSE a,
                      IF e1 >= e2 THEN b + 1 ELSE b,
                      IF same THEN c ELSE ConflictRegion(c, x, y))
    ELSE IF a <= Len(s1)
    THEN LET x == s1[a]
         IN  XdlDoMergeLoop(O, A, B, s1, s2, a + 1, b,
                 XdlAppendMerge(c, 1, x.i1, x.chg1, x.i2, x.chg2,
                                x.i1 + Len(B) - Len(O), x.chg1))
    ELSE IF b <= Len(s2)
    THEN LET y == s2[b]
         IN  XdlDoMergeLoop(O, A, B, s1, s2, a, b + 1,
                 XdlAppendMerge(c, 2, y.i1, y.chg1, y.i1 + Len(A) - Len(O), y.chg1,
                                y.i2, y.chg2))
    ELSE c

RECURSIVE XdlFillMergeBuffer(_, _, _, _, _)
\* xdl_fill_merge_buffer with the diff3 style: ours between the regions, a
\* region by its mode
XdlFillMergeBuffer(O, A, B, c, i) ==
    IF c = << >> THEN Slice(A, i, Len(A) - i)
    ELSE LET m == Head(c)
             region ==
                 IF m.mode = 0
                 THEN <<Line("<<<<<<< CURRENT", 0)>> \o Slice(A, m.i1, m.chg1)
                          \o <<Line("||||||| BASE", 0)>> \o Slice(O, m.i0, m.chg0)
                          \o <<Line("=======", 0)>> \o Slice(B, m.i2, m.chg2)
                          \o <<Line(">>>>>>> OTHER", 0)>>
                 ELSE IF m.mode = 1 THEN Slice(A, m.i1, m.chg1)
                 ELSE Slice(B, m.i2, m.chg2)
         IN  Slice(A, i, m.i1 - i) \o region
                 \o XdlFillMergeBuffer(O, A, B, Tail(c), m.i1 + m.chg1)

\* git merge-file -p --diff3 A O B, with the kept lines S1 of O in A and S2
\* of O in B (xdl_merge)
MergeFile(A, O, B, S1, S2) ==
    LET s1 == Script(O, A, S1)
        s2 == Script(O, B, S2)
    IN  IF s1 = << >> THEN B
        ELSE IF s2 = << >> THEN A
        ELSE XdlFillMergeBuffer(O, A, B,
                 XdlDoMergeLoop(O, A, B, s1, s2, 1, 1, << >>), 0)

\* ------------------------------------------------------------ git-merge-range steps
\* the marker that ends a chunk of the given type, and the type that follows
ChunkEnd(state) ==
    CASE state = "merged" -> "<<<<<<< CURRENT"
      [] state = "ours" -> "||||||| BASE"
      [] state = "base" -> "======="
      [] OTHER -> ">>>>>>> OTHER"

ChunkAfter(state) ==
    CASE state = "merged" -> "ours"
      [] state = "ours" -> "base"
      [] state = "base" -> "theirs"
      [] OTHER -> "merged"

Chunk(type, indices) == [type |-> type, indices |-> indices]

RECURSIVE ParseChunks(_, _)
\* the parsing loop of __merge_indices: int(line) raises ValueError on a
\* line that is not a number
ParseChunks(result_lines, chunks) ==
    IF result_lines = << >> THEN [raised |-> FALSE, chunks |-> chunks]
    ELSE LET line == Head(result_lines)
             last == chunks[Len(chunks)]
         IN  IF line.k = ChunkEnd(last.type)
             THEN ParseChunks(Tail(result_lines),
                              Append(chunks, Chunk(ChunkAfter(last.type), << >>)))
             ELSE IF line.k = "index"
             THEN ParseChunks(Tail(result_lines),
                              [chunks EXCEPT ![Len(chunks)].indices = Append(@, line.n)])
             ELSE [raised |-> TRUE, chunks |-> << >>]

\* [self.__qs.index(c.sha1) for c in commits]
Indices(idx, commits) == [i \in DOMAIN commits |-> idx[commits[i].sha1]]

\* the orders in which a set can be iterated
RECURSIVE Perms(_)
Perms(S) ==
    IF S = {} THEN {<< >>}
    ELSE UNION {{<<x>> \o p : p \in Perms(S \ {x})} : x \in S}

RECURSIVE ClassOrders(_, _)
\* an iteration order for each of qs_sets[i], qs_sets[i+1], ...: Python
\* fixes the order in which a set of strings is iterated only within a run
ClassOrders(sets, i) ==
    IF i \notin DOMAIN sets THEN {<< >>}
    ELSE {<<p>> \o rest : p \in Perms(sets[i]), rest \in ClassOrders(sets, i + 1)}

\* a line of the rebase todo: a marker, "# INFO: <origin>" (the list of
\* the other matches of the commit is left out) or "pick <sha1> <subject>"
TodoLine(op, arg) == [op |-> op, arg |-> arg]

\* the members of a class, whatever range they are in
MembersIn_AnyRange(order, sha1_set) == order

\* the members of a class, as iterated, that are in sha1_set
MembersIn(order, sha1_set) ==
    LET in(s) == s \in sha1_set IN SelectSeq(order, in)

\* the choice of a merged chunk made for every chunk: current first, then
\* other
Chosen_CurrentFirst(type, order, cur, base, oth) ==
    LET first(T, origin) == [found |-> MembersIn(order, T) # << >>,
                             sha1 |-> IF MembersIn(order, T) # << >>
                                      THEN Head(MembersIn(order, T)) ELSE "none",
                             origin |-> origin]
    IN  IF first(cur, "OURS").found THEN first(cur, "OURS") ELSE first(oth, "THEIRS")

\* the commit and the origin chosen for an index of a chunk
Chosen(type, order, cur, base, oth) ==
    LET first(T, origin) == [found |-> MembersIn(order, T) # << >>,
                             sha1 |-> IF MembersIn(order, T) # << >>
                                      THEN Head(MembersIn(order, T)) ELSE "none",
                             origin |-> origin]
    IN  CASE type = "merged" ->
                 IF first(cur, "OURS").found THEN first(cur, "OURS")
                 ELSE first(oth, "THEIRS")
          [] type = "ours" -> first(cur, "OURS")
          [] type = "base" -> first(base, "BASE")
          [] OTHER -> first(oth, "THEIRS")

RECURSIVE TodoOfIndices(_, _, _, _, _, _)
\* the inner loop of __generate_rebase_todo
TodoOfIndices(type, indices, orders, cur, base, oth) ==
    IF indices = << >> THEN << >>
    ELSE LET order == orders[Head(indices) + 1]
             c == Chosen(type, order, cur, base, oth)
             info == IF type # "merged" \/ Len(order) = 1
                     THEN <<TodoLine("# INFO", c.origin)>> ELSE << >>
         IN  info \o <<TodoLine("pick", c.sha1)>>
                 \o TodoOfIndices(type, Tail(indices), orders, cur, base, oth)

\* the marker written before a chunk
ChunkMarker(type) ==
    CASE type = "merged" -> << >>
      [] type = "ours" -> <<TodoLine("marker", "<<<<<<< OURS")>>
      [] type = "base" -> <<TodoLine("marker", "||||||| BASE")>>
      [] OTHER -> <<TodoLine("marker", "=======")>>

RECURSIVE TodoOfChunks(_, _, _, _, _)
\* the outer loop of __generate_rebase_todo
TodoOfChunks(chunks, orders, cur, base, oth) ==
    IF chunks = << >> THEN << >>
    ELSE LET ch == Head(chunks)
         IN  ChunkMarker(ch.type)
                 \o TodoOfIndices(ch.type, ch.indices, orders, cur, base, oth)
                 \o (IF ch.type = "theirs"
                     THEN <<TodoLine("marker", ">>>>>>> THEIRS")>> ELSE << >>)
                 \o TodoOfChunks(Tail(chunks), orders, cur, base, oth)

\* __generate_rebase_todo without --todo-append: the lines, or the
\* exception "bug: sha1 not found for index"
GenerateRebaseTodo(chunks, orders, current, base, other, target) ==
    LET lines == TodoOfChunks(chunks, orders, Range(Sha1s(current)),
                              Range(Sha1s(base)), Range(Sha1s(other)))
        tail == IF target
                THEN <<TodoLine("#", "Final command to create/update the target branch"),
                       TodoLine("exec", "git checkout -B")>>
                ELSE << >>
    IN  IF \E i \in DOMAIN lines : lines[i] = TodoLine("pick", "none")
        THEN [raised |-> TRUE, todo |-> << >>]
        ELSE [raised |-> FALSE, todo |-> lines \o tail]

\* the state of a run of git-merge-range
NoMr ==
    [pc |-> "idle", current |-> << >>, base |-> << >>, other |-> << >>,
     target |-> FALSE, idx |-> [x \in {} |-> 0], result_lines |-> << >>,
     chunks |-> << >>, todo |-> << >>, error |-> "none"]
\* ------------------------------------------------------------ concurrent runs
\* the genbranch processes that share the cache file
Procs == {"one", "two"}

\* a process: where it is, its GenbranchCache (the trees it loaded and
\* updated), the series of its pile, its temporary file, how it ended
NoProc ==
    [pc |-> "idle", trees |-> NoTrees, series |-> << >>, tmp |-> FileMissing,
     exit |-> "none"]

\* the processes, the number of runs started, and what happened so far: the
\* images that were written in full to a temporary file, the series whose
\* run returned 0
NoPr ==
    [procs |-> [p \in Procs |-> NoProc], started |-> 0, images |-> {},
     saved |-> {}]
\* ------------------------------------------------------------ genlinear-branch values
\* The history of the pile branch is a sequence of commits in the order
\* they were made; pile[c] is the set of parents of commit c, all older
\* than c, and the branch points to the newest. A commit with two parents
\* is a merge.
RECURSIVE Reach(_, _)
Reach(pile, c) ==
    IF c = 0 THEN {}
    ELSE {c} \cup UNION {Reach(pile, p) : p \in pile[c]}

RECURSIVE Ascending(_)
Ascending(S) ==
    IF S = {} THEN << >>
    ELSE LET m == CHOOSE x \in S : \A y \in S : x <= y
         IN  <<m>> \o Ascending(S \ {m})

\* git rev-list --no-merges --reverse from..to (from = 0: all of to)
PileRevList(pile, from, to) ==
    Ascending({c \in Reach(pile, to) \ Reach(pile, from) :
                   Cardinality(pile[c]) < 2})

\* A synthesized commit is known by its content: the tree, the parent and
\* the metadata copied from the pile revision. It is written here as the
\* sequence of [rev, tree] from the root commit to itself, so its parent
\* is the sequence without the last element and << >> is no commit.
EMPTY_TREE_HASH == 0
NoTree == 0 - 1
TreeOf(commit) == commit[Len(commit)].tree

\* git rev-list --no-merges linear_branch, newest first, as the lengths of
\* the commits of the branch; notes is a set of <<commit, pile revision>>
Noted(head, notes) ==
    {k \in 1..Len(head) : \E n \in notes : n[1] = SubSeq(head, 1, k)}

GetRefsFromLinearized(incremental, head, notes) ==
    IF ~incremental \/ notes = {} \/ head = << >> \/ Noted(head, notes) = {}
    THEN [top |-> << >>, from |-> 0]
    ELSE LET k == CHOOSE x \in Noted(head, notes) :
                      \A y \in Noted(head, notes) : y <= x
             n == CHOOSE x \in notes : x[1] = SubSeq(head, 1, k)
         IN  [top |-> head, from |-> n[2]]

\* git notes add -f: the note of the commit is replaced
NotesAdd(notes, commit, rev) ==
    {n \in notes : n[1] # commit} \cup {<<commit, rev>>}

\* A genlinear-branch run, the pile branch, the linear branch (head) and
\* its notes. pile_branch is the commit the pile branch pointed to when
\* the run listed its range, top the commit the run started from;
\* parent_ref, tree and last_good_ref are the locals of the loop, idx
\* counts from 1.
NoLin ==
    [pc |-> "idle", n |-> 0, pile |-> << {} >>, head |-> << >>, notes |-> {},
     pile_branch |-> 0, top |-> << >>, refs |-> << >>, idx |-> 0,
     parent_ref |-> << >>,
     tree |-> NoTree, last_good_ref |-> 0, exit |-> "none"]

\* A genbranch run and what it has on disk: the temporary worktree of the
\* pile revision (patches_wt), the temporary worktree the patches are
\* applied in (work_wt), the temporary files of _CacheData.save (tmps, a
\* count); n counts the runs.
NoCl ==
    [pc |-> "idle", n |-> 0, pile_rev |-> FALSE, use_cache |-> FALSE,
     patches_wt |-> FALSE, work_wt |-> FALSE, tmps |-> 0, exit |-> "none"]
\* A subcommand run by main(): the patches of its list and those applied,
\* whether core.splitIndex is set in the configuration, ret of _genbranch
\* (unbound until git am has returned), and how the process ended.
NoSub ==
    [pc |-> "idle", n |-> 0, inplace |-> FALSE, configured |-> FALSE,
     patches |-> 0, applied |-> 0, ret |-> "unbound", interrupted |-> FALSE,
     exit |-> "none"]

NoQs == [graph |-> EmptyGraph, calls |-> << >>, built |-> FALSE, idx |-> [x \in {} |-> 0]]

VARIABLES
    file,       \* the cache file
    cache,      \* the GenbranchCache object: [live, ident, trees]
    gone,       \* commits missing from the object store
    mainRef,    \* the commit the symbolic revision "main" points at
    nUpd,       \* update calls so far
    last,       \* the last operation and its arguments
    srch,       \* a search_best_base call in progress
    sv,         \* a _CacheData.save call in progress and its temporary file
    run,        \* the genbranch process: its position, arguments and locals
    branch,     \* the commit the result branch points at
    qs,         \* a QuotientSpaceBuilder, and the QuotientSpace once built
    mr,         \* a git-merge-range run
    pr,         \* genbranch processes that share the cache file
    lin,        \* a genlinear-branch run and the linear branch
    cl,         \* a genbranch run seen by what it creates and removes
    sub         \* a subcommand run by main, and the interrupt it may get

genVars == <<run, branch>>

toolVars == <<qs, mr, pr, lin, cl, sub>>

vars == <<file, cache, gone, mainRef, nUpd, last, srch, sv, genVars, toolVars>>

NoCache == [live |-> FALSE, ident |-> << >>, trees |-> NoTrees]
NoOp == [op |-> "none", baseline |-> "", hashes |-> << >>, head |-> NoCommit]
NoResult == [commit |-> NoCommit, offset |-> -1]
NoSave == [pc |-> "idle", tmp |-> FileMissing, old |-> FileMissing, new |-> FileMissing]
NoSearch == [pc |-> "idle", baseline |-> "", hashes |-> << >>, nodes |-> << >>,
             st |-> [base |-> 0, head |-> 0, probed |-> {}], iter |-> 0,
             result |-> NoResult]

Init ==
    /\ file = FileMissing
    /\ cache = NoCache
    /\ gone = {}
    /\ mainRef = "B2"
    /\ nUpd = 0
    /\ last = NoOp
    /\ srch = NoSearch
    /\ sv = NoSave
    /\ run = NoRun
    /\ branch = NoCommit
    /\ qs = NoQs
    /\ mr = NoMr
    /\ pr = NoPr
    /\ lin = NoLin
    /\ cl = NoCl
    /\ sub = NoSub

\* GenbranchCache(path, committer_ident), in a process that starts: no search
\* of the object it replaces is under way
Construct(s) ==
    /\ cache' = [live |-> TRUE, ident |-> StripDate(s),
                 trees |-> WithIdent(Load(file), StripDate(s))]
    /\ last' = [NoOp EXCEPT !.op = "construct"]
    /\ srch' = NoSearch
    /\ UNCHANGED <<file, gone, mainRef, nUpd, sv, genVars, toolVars>>

\* cache.update(pile, head), head being the tip of a branch that holds the
\* pile's patches on the base commit hb
Update(baseline, hashes, hb) ==
    LET head == AmSeries(Rev(hb), hashes, cache.ident)
        commits == RevList(baseline, head, mainRef)
    IN  /\ cache.live
        /\ nUpd < MaxUpdates
        /\ cache' = [cache EXCEPT !.trees[cache.ident] =
                        UpdateTree(@, baseline, hashes, commits)]
        /\ nUpd' = nUpd + 1
        /\ last' = [op |-> "update", baseline |-> baseline, hashes |-> hashes, head |-> head]
        /\ UNCHANGED <<file, gone, mainRef, srch, sv, genVars, toolVars>>

\* cache.save()
Save ==
    /\ cache.live
    /\ file' = Pickle(SCHEMA_VERSION, cache.trees)
    /\ last' = [NoOp EXCEPT !.op = "save"]
    /\ UNCHANGED <<cache, gone, mainRef, nUpd, srch, sv, genVars, toolVars>>

\* the commits a tree holds, as the object store names them
TreeCommits(tree, ref) == {Resolve(tree[p].commit, ref) : p \in DOMAIN tree \ {<< >>}}

\* the symbolic revision moves to another commit
MoveRef(b) ==
    /\ b # mainRef
    /\ mainRef' = b
    /\ last' = [NoOp EXCEPT !.op = "moveref"]
    /\ UNCHANGED <<file, cache, gone, nUpd, srch, sv, genVars, toolVars>>

\* something else than save() rewrites the cache file: it is removed, truncated
\* or overwritten, or it was written by a release with another schema
Damage(f) ==
    /\ ~cache.live
    /\ f # file
    /\ file' = f
    /\ last' = [NoOp EXCEPT !.op = "damage"]
    /\ UNCHANGED <<cache, gone, mainRef, nUpd, srch, sv, genVars, toolVars>>

Next ==
    \/ \E s \in IdentStrings : Construct(s)
    \/ \E b \in BaselineArgs, h \in Series, hb \in BaseCommits : Update(b, h, hb)
    \/ Save

Spec == Init /\ [][Next]_vars

\* ------------------------------------------------------------ search, step by step
\* search_best_base up to the binary search: the lookup of the baseline and
\* the walk along the series
SearchBegin(baseline, hashes) ==
    LET tree == cache.trees[cache.ident]
    IN  /\ cache.live
        /\ srch.pc = "idle"
        /\ srch' =
              IF <<baseline>> \notin DOMAIN tree
              THEN [NoSearch EXCEPT !.pc = "done", !.baseline = baseline, !.hashes = hashes,
                                    !.result = [commit |-> Rev(baseline), offset |-> 0]]
              ELSE LET nodes == SearchNodes(tree, baseline, hashes)
                   IN  [NoSearch EXCEPT !.pc = "loop", !.baseline = baseline,
                                        !.hashes = hashes, !.nodes = nodes,
                                        !.st = BisectInit(nodes)]
        /\ UNCHANGED <<file, cache, gone, mainRef, nUpd, last, sv, genVars, toolVars>>

\* one iteration of the while loop
SearchProbe ==
    /\ srch.pc = "loop"
    /\ srch.st.base < srch.st.head
    /\ srch' = [srch EXCEPT !.st = BisectStep(srch.nodes, srch.st, gone, mainRef),
                            !.iter = @ + 1]
    /\ UNCHANGED <<file, cache, gone, mainRef, nUpd, last, sv, genVars, toolVars>>

\* return nodes[base].commit, base
SearchReturn ==
    /\ srch.pc = "loop"
    /\ ~(srch.st.base < srch.st.head)
    /\ srch' = [srch EXCEPT !.pc = "done",
                            !.result = [commit |-> srch.nodes[srch.st.base + 1],
                                        offset |-> srch.st.base]]
    /\ UNCHANGED <<file, cache, gone, mainRef, nUpd, last, sv, genVars, toolVars>>

\* The cache after GenbranchCache(path, ident) and one update(series, head) on
\* baseline B1, and an object store that has lost any of the cached commits.
InitSearch ==
    \E h \in SeqsUpTo(Patches, MaxPath) :
        LET ident == StripDate(<<"Ann", "<a@x>", "1700000000", "+0000">>)
            head == AmSeries(Rev("B1"), h, ident)
            tree == UpdateTree(EmptyTree, "B1", h, RevList("B1", head, "B2"))
        IN  /\ file = FileMissing
            /\ cache = [live |-> TRUE, ident |-> ident,
                        trees |-> [k \in {ident} |-> tree]]
            /\ gone \in SUBSET TreeCommits(tree, "B2")
            /\ mainRef = "B2"
            /\ nUpd = 1
            /\ last = [op |-> "update", baseline |-> "B1", hashes |-> h, head |-> head]
            /\ srch = NoSearch
            /\ sv = NoSave
            /\ run = NoRun
            /\ branch = NoCommit
            /\ qs = NoQs
            /\ mr = NoMr
            /\ pr = NoPr
            /\ lin = NoLin
            /\ cl = NoCl
            /\ sub = NoSub

\* the series searched for: the cached one, or the cached one with a patch appended
NextSearch ==
    \/ \E b \in BaselineArgs : SearchBegin(b, last.hashes)
    \/ \E x \in Patches : SearchBegin("B1", Append(last.hashes, x))
    \/ SearchProbe
    \/ SearchReturn

SpecSearch == InitSearch /\ [][NextSearch]_vars

\* ------------------------------------------------------------ loading
\* the caches one update leaves
LoadTrees ==
    {[k \in {StripDate(s)} |->
         UpdateTree(EmptyTree, b, h,
                    RevList(b, AmSeries(Resolve(Rev(b), "B2"), h, StripDate(s)), "B2"))] :
        s \in IdentStrings, b \in BaselineArgs, h \in Series}

\* the cache files a process can find: none, an undecodable one, and the
\* files this release, an older one and a newer one save
LoadFiles ==
    {FileMissing, FileGarbage}
        \cup {Pickle(v, t) : v \in {SCHEMA_VERSION - 1, SCHEMA_VERSION, SCHEMA_VERSION + 1},
                             t \in LoadTrees}

NextLoad ==
    \/ \E f \in LoadFiles : Damage(f)
    \/ \E s \in IdentStrings : Construct(s)
    \/ \E b \in BaselineArgs, h \in Series : SearchBegin(b, h)
    \/ SearchProbe
    \/ SearchReturn

SpecLoad == Init /\ [][NextLoad]_vars

\* ------------------------------------------------------------ saving
\* open(path, "wb"): the cache file itself is opened for writing and truncated
SaveOpen_InPlace(f) == [path |-> FilePartial, tmp |-> FileMissing]

\* tempfile.NamedTemporaryFile(delete=False, dir=path.parent): a new empty file
\* next to the cache file, which is left alone
SaveOpen(f) == [path |-> f, tmp |-> FilePartial]

\* data_bytes = pickle.dumps(self) and the temporary file is created
SaveBegin ==
    /\ cache.live
    /\ sv.pc \notin {"writing", "written"}
    /\ sv' = [pc |-> "writing", tmp |-> SaveOpen(file).tmp, old |-> file,
              new |-> Pickle(SCHEMA_VERSION, cache.trees)]
    /\ file' = SaveOpen(file).path
    /\ UNCHANGED <<cache, gone, mainRef, nUpd, last, srch, genVars, toolVars>>

\* pickle.dump((SCHEMA_VERSION, data_bytes), f) completes
SaveWrite ==
    /\ sv.pc = "writing"
    /\ sv' = [sv EXCEPT !.pc = "written", !.tmp = sv.new]
    /\ UNCHANGED <<file, cache, gone, mainRef, nUpd, last, srch, genVars, toolVars>>

\* pickle.dump raises: the temporary file is closed and unlinked, the
\* exception goes on to the caller
SaveWriteFails ==
    /\ sv.pc = "writing"
    /\ sv' = [sv EXCEPT !.pc = "raised", !.tmp = FileMissing]
    /\ UNCHANGED <<file, cache, gone, mainRef, nUpd, last, srch, genVars, toolVars>>

\* f.close() and the rename of the temporary file over the cache file
SaveReplace ==
    /\ sv.pc = "written"
    /\ file' = sv.tmp
    /\ sv' = [sv EXCEPT !.pc = "done", !.tmp = FileMissing]
    /\ last' = [NoOp EXCEPT !.op = "save"]
    /\ UNCHANGED <<cache, gone, mainRef, nUpd, srch, genVars, toolVars>>

\* the rename raises: the temporary file stays behind
SaveReplaceFails ==
    /\ sv.pc = "written"
    /\ sv' = [sv EXCEPT !.pc = "raised"]
    /\ UNCHANGED <<file, cache, gone, mainRef, nUpd, last, srch, genVars, toolVars>>

\* the process is killed between two steps of save()
SaveKilled ==
    /\ sv.pc \in {"writing", "written"}
    /\ sv' = [sv EXCEPT !.pc = "killed"]
    /\ cache' = NoCache
    /\ UNCHANGED <<file, gone, mainRef, nUpd, last, srch, genVars, toolVars>>

NextSave ==
    \/ \E s \in IdentStrings : sv.pc \notin {"writing", "written"} /\ Construct(s)
    \/ \E h \in Series : sv.pc \notin {"writing", "written"} /\ Update("B1", h, "B1")
    \/ SaveBegin
    \/ SaveWrite
    \/ SaveWriteFails
    \/ SaveReplace
    \/ SaveReplaceFails
    \/ SaveKilled

SpecSave == Init /\ [][NextSave]_vars

\* ------------------------------------------------------------ genbranch
\* genbranch_with_exit_stack up to the patch application: the cache is
\* constructed and searched if caching applies, and an in-place run resets the
\* checkout to the effective baseline unless a git am is under way in it.
GenStart(a, series) ==
    LET ident == StripDate(GenIdent)
        useCache == ~a.dirty /\ a.use_cache /\ CacheAllowed(a)
        newCache == IF useCache
                    THEN [live |-> TRUE, ident |-> ident,
                          trees |-> WithIdent(Load(file), ident)]
                    ELSE NoCache
        found == IF useCache
                 THEN SearchBestBase(newCache.trees[ident], GenBaseline, series, gone, mainRef)
                 ELSE [commit |-> Rev(GenBaseline), offset |-> 0]
        patchlist == IF found.offset # 0 THEN Remaining(series, found.offset) ELSE series
        warned == IF ~a.dirty /\ a.use_cache /\ ~CacheAllowed(a)
                  THEN {"caching disabled"} ELSE {}
        prev == IF /\ run.n > 0
                   /\ ~run.args.dirty /\ run.args.use_cache /\ CacheAllowed(run.args)
                   /\ Load(run.file0) = NoTrees
                   /\ run.checked
                THEN [kept |-> TRUE, args |-> run.args, series |-> run.series,
                      created |-> run.created, applied |-> run.applied,
                      head |-> branch, exit |-> run.exit]
                ELSE NoPrev
        started == [NoRun EXCEPT !.n = run.n + 1, !.args = a, !.fuzzy = a.fuzzy,
                                 !.series = series, !.file0 = file,
                                 !.offset = found.offset, !.patchlist = patchlist,
                                 !.head = found.commit, !.warned = warned,
                                 !.rebase = run.rebase, !.prev = prev,
                                 !.checked = IF a.inplace THEN ~run.rebase
                                             ELSE ~(a.blocked /\ ~a.force)]
    IN  /\ run.pc = "idle"
        /\ run.n < MaxRuns
        /\ cache' = newCache
        /\ IF a.inplace /\ run.rebase
           THEN /\ run' = [started EXCEPT !.exit = "fatal"]
                /\ UNCHANGED branch
           ELSE IF a.inplace
           THEN /\ run' = [started EXCEPT !.pc = IF patchlist = << >> THEN "post" ELSE "am"]
                /\ branch' = found.commit
           ELSE /\ run' = [started EXCEPT !.pc = "wt"]
                /\ UNCHANGED branch
        /\ UNCHANGED <<file, gone, mainRef, nUpd, last, srch, sv, toolVars>>

\* in-place: git am, or git apply under --dirty, of the patch list.  git am
\* commits the patches up to the first that does not apply; git apply applies
\* all of them or none and commits nothing.
GenAm ==
    LET pl == run.patchlist
        k == IF run.args.dirty
             THEN IF CleanPrefix(pl) = Len(pl) THEN Len(pl) ELSE 0
             ELSE CleanPrefix(pl)
        ok == CleanPrefix(pl) = Len(pl)
    IN  /\ run.pc = "am"
        /\ branch' = IF run.args.dirty THEN branch
                     ELSE GitAm(branch, SubSeq(pl, 1, k), StripDate(GenIdent), How(run.args))
        /\ run' = [run EXCEPT !.pc = IF ok THEN "post" ELSE "loop",
                              !.ret = IF ok THEN 0 ELSE 1,
                              !.next = k + 1,
                              !.applied = k,
                              !.created = IF run.args.dirty THEN 0 ELSE k]
        /\ UNCHANGED <<file, cache, gone, mainRef, nUpd, last, srch, sv, toolVars>>

\* one iteration of the while loop: git_am_apply_fallbacks on the patch git am
\* stopped at, then git am --continue.  tty and answer are the terminal and
\* the reply to the prompt; stall is git am --continue failing without having
\* moved to the next patch.
GenFallback(tty, answer, stall) ==
    LET pl == run.patchlist
        cur == pl[run.next]
        isAm == ~run.args.dirty
        asks == isAm /\ run.fuzzy = "none"
        fuzzy == IF isAm THEN ShouldTryFuzzy(run.fuzzy, tty, answer) ELSE run.fuzzy
        tried == isAm /\ fuzzy = "yes"
        solved == tried /\ PatchKind(cur) \in {"fuzzy", "patch"}
        rest == SubSeq(pl, run.next + 1, Len(pl))
        k == CleanPrefix(rest)
        ident == StripDate(GenIdent)
        out0 == run.next
        out1 == IF stall THEN run.next ELSE run.next + 1 + k
        done == ~stall /\ k = Len(rest)
        called == [run EXCEPT !.fuzzy = fuzzy,
                              !.tried = @ \/ tried,
                              !.prompts = IF asks /\ tty THEN @ + 1 ELSE @,
                              !.stdin = IF ~asks THEN @
                                        ELSE IF tty THEN "tty" ELSE "pipe"]
    IN  /\ run.pc = "loop"
        /\ IF ~solved
           THEN /\ run' = [called EXCEPT !.pc = "post"]
                /\ UNCHANGED branch
           ELSE /\ branch' = IF stall THEN branch
                             ELSE GitAm(AmCommit(branch, cur, ident, "fallback"),
                                        SubSeq(rest, 1, k), ident, How(run.args))
                /\ run' = [called EXCEPT !.pc = IF done \/ Stalled(out0, out1)
                                                THEN "post" ELSE "loop",
                                         !.ret = IF done THEN 0 ELSE 1,
                                         !.any_fallback = TRUE,
                                         !.next = out1,
                                         !.applied = IF stall THEN @ ELSE @ + 1 + k,
                                         !.created = IF stall THEN @ ELSE @ + 1 + k]
        /\ UNCHANGED <<file, cache, gone, mainRef, nUpd, last, srch, sv, toolVars>>

\* in-place, after the patch application: fatal() on a conflict; otherwise
\* the warning if a fallback was used, the cache update and save, return 0
GenPost ==
    /\ run.pc = "post"
    /\ IF run.patchlist # << >> /\ run.ret # 0
       THEN /\ run' = [run EXCEPT !.pc = "idle", !.exit = "fatal", !.rebase = TRUE]
            /\ UNCHANGED <<file, cache>>
       ELSE LET upd == ShouldUpdate(cache.live, run.any_fallback)
                updated == [cache EXCEPT !.trees[cache.ident] =
                               UpdateTree(@, GenBaseline, run.series,
                                          RevList(GenBaseline, branch, mainRef))]
            IN  /\ run' = [run EXCEPT !.pc = "idle", !.exit = "0",
                                      !.warned = IF run.any_fallback
                                                 THEN @ \cup {"fallbacks used"} ELSE @,
                                      !.updated = upd]
                /\ cache' = IF upd THEN updated ELSE cache
                /\ file' = IF upd THEN Pickle(SCHEMA_VERSION, updated.trees) ELSE file
    /\ UNCHANGED <<branch, gone, mainRef, nUpd, last, srch, sv, toolVars>>

\* the temporary worktree: the error if the branch is checked out elsewhere
\* and not forced, git am or git apply with check=True, under --dirty the raise
\* of git_temporary_worktree.Break (an attribute the function does not have, so
\* an AttributeError, and nothing catches either), the cache update and save,
\* the branch pointed at the head
GenWorktree ==
    LET pl == run.patchlist
        a == run.args
        ok == CleanPrefix(pl) = Len(pl)
        head == GitAm(run.head, pl, StripDate(GenIdent), How(a))
        updated == [cache EXCEPT !.trees[cache.ident] =
                       UpdateTree(@, GenBaseline, run.series,
                                  RevList(GenBaseline, head, mainRef))]
    IN  /\ run.pc = "wt"
        /\ IF BranchInUse(a)
           THEN /\ run' = [run EXCEPT !.pc = "idle", !.exit = "1"]
                /\ UNCHANGED <<file, cache, branch>>
           ELSE IF ~ok
           THEN /\ run' = [run EXCEPT !.pc = "idle", !.exit = "raise",
                                      !.applied = IF a.dirty THEN 0 ELSE CleanPrefix(pl),
                                      !.created = IF a.dirty THEN 0 ELSE CleanPrefix(pl)]
                /\ UNCHANGED <<file, cache, branch>>
           ELSE IF a.dirty
           THEN /\ run' = [run EXCEPT !.pc = "idle", !.exit = "raise", !.applied = Len(pl)]
                /\ UNCHANGED <<file, cache, branch>>
           ELSE /\ run' = [run EXCEPT !.pc = "idle", !.exit = "0", !.head = head,
                                      !.applied = Len(pl), !.created = Len(pl),
                                      !.updated = cache.live]
                /\ cache' = IF cache.live THEN updated ELSE cache
                /\ file' = IF cache.live THEN Pickle(SCHEMA_VERSION, updated.trees) ELSE file
                /\ branch' = head
        /\ UNCHANGED <<gone, mainRef, nUpd, last, srch, sv, toolVars>>

NextGen ==
    \/ \E a \in GenArgs, series \in GenSeries : GenStart(a, series)
    \/ GenAm
    \/ \E tty, answer, stall \in BOOLEAN : GenFallback(tty, answer, stall)
    \/ GenPost
    \/ GenWorktree

SpecGen == Init /\ [][NextGen]_vars

\* ------------------------------------------------------------ quotient space
\* builder.update(*items)
QsUpdate(items) ==
    /\ ~qs.built
    /\ Len(qs.calls) < MaxCalls
    /\ qs' = [qs EXCEPT !.graph = AddCycle(@, items), !.calls = Append(@, items)]
    /\ UNCHANGED <<file, cache, gone, mainRef, nUpd, last, srch, sv, genVars, mr, pr, lin, cl, sub>>

\* qs = builder.build()
QsBuild ==
    /\ ~qs.built
    /\ qs' = [qs EXCEPT !.built = TRUE, !.idx = Build(qs.graph)]
    /\ UNCHANGED <<file, cache, gone, mainRef, nUpd, last, srch, sv, genVars, mr, pr, lin, cl, sub>>

NextQs ==
    \/ \E items \in ItemTuples : QsUpdate(items)
    \/ QsBuild

SpecQs == Init /\ [][NextQs]_vars

\* ------------------------------------------------------------ git-merge-range
\* Run.__get_commits: the three ranges, current and other each an edit of
\* base or the same range
MrGetCommits(base, current, other, target) ==
    /\ mr.pc = "idle"
    /\ mr' = [mr EXCEPT !.pc = "commits", !.current = CommitList(current),
                        !.base = CommitList(base), !.other = CommitList(other),
                        !.target = target]
    /\ UNCHANGED <<file, cache, gone, mainRef, nUpd, last, srch, sv, genVars, qs, pr, lin, cl, sub>>

\* Run.__build_qspace
MrBuildQspace ==
    /\ mr.pc = "commits"
    /\ mr' = [mr EXCEPT !.pc = "qspace",
                        !.idx = BuildQspace(mr.current, mr.base, mr.other)]
    /\ UNCHANGED <<file, cache, gone, mainRef, nUpd, last, srch, sv, genVars, qs, pr, lin, cl, sub>>

\* Run.__merge_indices
MrMergeIndices ==
    /\ mr.pc = "qspace"
    /\ LET cur == IndexLines(Indices(mr.idx, mr.current))
           base == IndexLines(Indices(mr.idx, mr.base))
           oth == IndexLines(Indices(mr.idx, mr.other))
       IN  \E S1 \in Alignments(base, cur), S2 \in Alignments(base, oth) :
               LET result_lines == MergeFile(cur, base, oth, S1, S2)
                   parsed == ParseChunks(result_lines, <<Chunk("merged", << >>)>>)
               IN  mr' = IF parsed.raised
                         THEN [mr EXCEPT !.pc = "raised", !.error = "ValueError",
                                         !.result_lines = result_lines]
                         ELSE [mr EXCEPT !.pc = "chunks", !.chunks = parsed.chunks,
                                         !.result_lines = result_lines]
    /\ UNCHANGED <<file, cache, gone, mainRef, nUpd, last, srch, sv, genVars, qs, pr, lin, cl, sub>>

\* Run.__generate_rebase_todo
MrGenerateRebaseTodo ==
    /\ mr.pc = "chunks"
    /\ LET qs_sets == GenerateSets(mr.idx)
       IN  IF qs_sets.raised
           THEN mr' = [mr EXCEPT !.pc = "raised", !.error = "ValueError"]
           ELSE \E orders \in ClassOrders(qs_sets.sets, 0) :
                    LET r == GenerateRebaseTodo(mr.chunks, orders, mr.current,
                                                mr.base, mr.other, mr.target)
                    IN  mr' = IF r.raised
                              THEN [mr EXCEPT !.pc = "raised", !.error = "Exception"]
                              ELSE [mr EXCEPT !.pc = "todo", !.todo = r.todo]
    /\ UNCHANGED <<file, cache, gone, mainRef, nUpd, last, srch, sv, genVars, qs, pr, lin, cl, sub>>

NextMerge ==
    \/ \E base \in BaseRanges :
           \E current \in Edits(base), target \in BOOLEAN :
               \E other \in Edits(base) \cup {current} :
                   MrGetCommits(base, current, other, target)
    \/ MrBuildQspace
    \/ MrMergeIndices
    \/ MrGenerateRebaseTodo

SpecMerge == Init /\ [][NextMerge]_vars

\* ------------------------------------------------------------ concurrent genbranch
\* genbranch.py 105-131: GenbranchCache(cache_path, committer_ident) reads
\* the cache file (search_best_base then only reads the trees)
PrLoad(p, series) ==
    /\ pr.procs[p].pc = "idle"
    /\ pr.started < MaxRuns
    /\ pr' = [pr EXCEPT !.started = @ + 1,
                        !.procs[p] = [NoProc EXCEPT
                            !.pc = "loaded", !.series = series,
                            !.trees = WithIdent(Load(file), StripDate(GenIdent))]]
    /\ UNCHANGED <<file, cache, gone, mainRef, nUpd, last, srch, sv, genVars, qs, mr, lin, cl, sub>>

\* genbranch.py 196-213: git am in the process's own worktree, then
\* cache.update(pile_for_cache, head)
PrUpdate(p) ==
    /\ pr.procs[p].pc = "loaded"
    /\ LET ident == StripDate(GenIdent)
           head == AmSeries(Rev(GenBaseline), pr.procs[p].series, ident)
       IN  pr' = [pr EXCEPT !.procs[p].pc = "updated",
                            !.procs[p].trees[ident] =
                                UpdateTree(@, GenBaseline, pr.procs[p].series,
                                           RevList(GenBaseline, head, mainRef))]
    /\ UNCHANGED <<file, cache, gone, mainRef, nUpd, last, srch, sv, genVars, qs, mr, lin, cl, sub>>

\* the temporary file opened on the cache file itself
PrSaveOpen_InPlace(p) ==
    /\ pr.procs[p].pc = "updated"
    /\ pr' = [pr EXCEPT !.procs[p].pc = "writing"]
    /\ file' = FilePartial
    /\ UNCHANGED <<cache, gone, mainRef, nUpd, last, srch, sv, genVars, qs, mr, lin, cl, sub>>

\* cache.save(): _CacheData.save 221-224, the temporary file is created
PrSaveOpen(p) ==
    /\ pr.procs[p].pc = "updated"
    /\ pr' = [pr EXCEPT !.procs[p].pc = "writing", !.procs[p].tmp = FilePartial]
    /\ UNCHANGED <<file, cache, gone, mainRef, nUpd, last, srch, sv, genVars, qs, mr, lin, cl, sub>>

\* _CacheData.save 226: pickle.dump into the temporary file
PrSaveWrite(p) ==
    /\ pr.procs[p].pc = "writing"
    /\ LET image == Pickle(SCHEMA_VERSION, pr.procs[p].trees)
       IN  pr' = [pr EXCEPT !.procs[p].pc = "written", !.procs[p].tmp = image,
                            !.images = @ \cup {image}]
    /\ UNCHANGED <<file, cache, gone, mainRef, nUpd, last, srch, sv, genVars, qs, mr, lin, cl, sub>>

\* _CacheData.save 232-233: the temporary file replaces the cache file, and
\* the run returns 0
PrSaveReplace(p) ==
    /\ pr.procs[p].pc = "written"
    /\ file' = pr.procs[p].tmp
    /\ pr' = [pr EXCEPT !.procs[p].pc = "idle", !.procs[p].tmp = FileMissing,
                        !.procs[p].exit = "0",
                        !.saved = @ \cup {pr.procs[p].series}]
    /\ UNCHANGED <<cache, gone, mainRef, nUpd, last, srch, sv, genVars, qs, mr, lin, cl, sub>>

NextRace ==
    \/ \E p \in Procs, series \in Series : PrLoad(p, series)
    \/ \E p \in Procs : PrUpdate(p)
    \/ \E p \in Procs : PrSaveOpen(p)
    \/ \E p \in Procs : PrSaveWrite(p)
    \/ \E p \in Procs : PrSaveReplace(p)

SpecRace == Init /\ [][NextRace]_vars

\* ------------------------------------------------------------ what a run leaves behind
\* The run leaves genbranch(): the ExitStack closes the worktree of the
\* pile revision and the with statement the worktree of the patches, both
\* through the finally of git_temporary_worktree (gitutil.py 105-110).
\* Nothing in it knows of the temporary file of save().
Leave(c, how) ==
    [c EXCEPT !.pc = "idle", !.exit = how, !.patches_wt = FALSE, !.work_wt = FALSE]

\* genbranch.py 40-53: the run starts; with --pile-rev the pile is checked
\* out in a temporary worktree that the exit stack owns
ClStart(pile_rev, use_cache) ==
    /\ cl.pc = "idle"
    /\ cl.n < MaxRuns
    /\ cl' = [cl EXCEPT !.pc = "setup", !.n = @ + 1, !.pile_rev = pile_rev,
                        !.use_cache = use_cache, !.patches_wt = pile_rev,
                        !.exit = "none"]
    /\ UNCHANGED <<file, cache, gone, mainRef, nUpd, last, srch, sv, genVars, qs, mr, pr, lin, sub>>

\* genbranch.py 65, 106-107: fatal() before the patches are applied
ClFatal ==
    /\ cl.pc = "setup"
    /\ cl' = Leave(cl, "fatal")
    /\ UNCHANGED <<file, cache, gone, mainRef, nUpd, last, srch, sv, genVars, qs, mr, pr, lin, sub>>

\* genbranch.py 196: with git_temporary_worktree(effective_baseline, ...)
ClWorktree ==
    /\ cl.pc = "setup"
    /\ cl' = [cl EXCEPT !.pc = "body", !.work_wt = TRUE]
    /\ UNCHANGED <<file, cache, gone, mainRef, nUpd, last, srch, sv, genVars, qs, mr, pr, lin, sub>>

\* genbranch.py 200-202: the branch is checked out elsewhere, return 1
ClBlocked ==
    /\ cl.pc = "body"
    /\ cl' = Leave(cl, "1")
    /\ UNCHANGED <<file, cache, gone, mainRef, nUpd, last, srch, sv, genVars, qs, mr, pr, lin, sub>>

\* genbranch.py 204-210: git am and rev-parse, or the exception of a git
\* command that fails
ClApply(ok) ==
    /\ cl.pc = "body"
    /\ cl' = IF ok THEN [cl EXCEPT !.pc = "applied"] ELSE Leave(cl, "raise")
    /\ UNCHANGED <<file, cache, gone, mainRef, nUpd, last, srch, sv, genVars, qs, mr, pr, lin, sub>>

\* genbranch.py 212-214 and _CacheData.save 221-224: with a cache, the
\* temporary file of save() is created; without, nothing is saved
ClSaveOpen ==
    /\ cl.pc = "applied"
    /\ cl' = IF cl.use_cache
             THEN [cl EXCEPT !.pc = "writing", !.tmps = @ + 1]
             ELSE [cl EXCEPT !.pc = "saved"]
    /\ UNCHANGED <<file, cache, gone, mainRef, nUpd, last, srch, sv, genVars, qs, mr, pr, lin, sub>>

\* _CacheData.save 225-230: pickle.dump, or its Exception: the temporary
\* file is unlinked and the exception raised again
ClSaveWrite(ok) ==
    /\ cl.pc = "writing"
    /\ cl' = IF ok THEN [cl EXCEPT !.pc = "written"]
             ELSE Leave([cl EXCEPT !.tmps = @ - 1], "raise")
    /\ UNCHANGED <<file, cache, gone, mainRef, nUpd, last, srch, sv, genVars, qs, mr, pr, lin, sub>>

\* _CacheData.save 231-233: the temporary file is renamed over the cache
\* file, or replace() raises and the file stays where it is
ClSaveReplace(ok) ==
    /\ cl.pc = "written"
    /\ cl' = IF ok THEN [cl EXCEPT !.pc = "saved", !.tmps = @ - 1]
             ELSE Leave(cl, "raise")
    /\ UNCHANGED <<file, cache, gone, mainRef, nUpd, last, srch, sv, genVars, qs, mr, pr, lin, sub>>

\* genbranch.py 216-222: the branch is moved and the run returns 0
ClReturn ==
    /\ cl.pc = "saved"
    /\ cl' = Leave(cl, "0")
    /\ UNCHANGED <<file, cache, gone, mainRef, nUpd, last, srch, sv, genVars, qs, mr, pr, lin, sub>>

\* KeyboardInterrupt at any point of the run: it is no Exception, so the
\* except clause of save() lets it through
ClInterrupt ==
    /\ cl.pc # "idle"
    /\ cl' = Leave(cl, "KeyboardInterrupt")
    /\ UNCHANGED <<file, cache, gone, mainRef, nUpd, last, srch, sv, genVars, qs, mr, pr, lin, sub>>

NextCleanup ==
    \/ \E pile_rev, use_cache \in BOOLEAN : ClStart(pile_rev, use_cache)
    \/ ClFatal
    \/ ClWorktree
    \/ ClBlocked
    \/ \E ok \in BOOLEAN : ClApply(ok)
    \/ ClSaveOpen
    \/ \E ok \in BOOLEAN : ClSaveWrite(ok)
    \/ \E ok \in BOOLEAN : ClSaveReplace(ok)
    \/ ClReturn
    \/ ClInterrupt

SpecCleanup == Init /\ [][NextCleanup]_vars

\* ------------------------------------------------------------ genlinear-branch
\* The run ends with an exception: its locals are gone, the pile, the
\* linear branch and the notes stay as they are.
LinRaise(l, how) ==
    [NoLin EXCEPT !.n = l.n, !.pile = l.pile, !.head = l.head,
                  !.notes = l.notes, !.exit = how]

\* a commit is made on the pile branch
PileCommit ==
    /\ lin.pc = "idle"
    /\ Len(lin.pile) < MaxRevs
    /\ lin' = [lin EXCEPT !.pile = Append(@, {Len(@)})]
    /\ UNCHANGED <<file, cache, gone, mainRef, nUpd, last, srch, sv, genVars, qs, mr, pr, cl, sub>>

\* a commit made on top of an older commit of the pile is merged into
\* the pile branch
PileMerge(fork) ==
    /\ lin.pc = "idle"
    /\ Len(lin.pile) + 2 <= MaxRevs
    /\ fork \in Reach(lin.pile, Len(lin.pile)) \ {Len(lin.pile)}
    /\ lin' = [lin EXCEPT !.pile = @ \o << {fork}, {Len(@), Len(@) + 1} >>]
    /\ UNCHANGED <<file, cache, gone, mainRef, nUpd, last, srch, sv, genVars, qs, mr, pr, cl, sub>>

\* git_pile.py 1454-1458, 1467-1468: the range of the run, "Nothing to
\* do" for an empty range, the tree of the commit the run starts from
LinStart(incremental) ==
    /\ lin.pc = "idle"
    /\ lin.n < MaxRuns
    /\ LET found == GetRefsFromLinearized(incremental, lin.head, lin.notes)
           refs == PileRevList(lin.pile, found.from, Len(lin.pile))
       IN  lin' = [lin EXCEPT
                   !.n = @ + 1,
                   !.pile_branch = Len(lin.pile),
                   !.top = found.top,
                   !.refs = refs,
                   !.parent_ref = found.top,
                   !.last_good_ref = 0,
                   !.tree = IF found.top = << >> THEN NoTree
                            ELSE TreeOf(found.top),
                   !.idx = IF refs = << >> THEN 0 ELSE 1,
                   !.pc = IF refs = << >> THEN "idle" ELSE "generate",
                   !.exit = IF refs = << >> THEN "0" ELSE "none"]
    /\ UNCHANGED <<file, cache, gone, mainRef, nUpd, last, srch, sv, genVars, qs, mr, pr, cl, sub>>

\* git_pile.py 1477-1502: _genbranch for the revision; an exception
\* leaves tree as it was, or sets the empty tree when there is no parent
LinGenerate_ForgetTree(ok) ==
    /\ lin.pc = "generate"
    /\ lin' = IF ok
              THEN [lin EXCEPT !.pc = "commit",
                               !.tree = lin.refs[lin.idx],
                               !.last_good_ref = lin.refs[lin.idx]]
              ELSE [lin EXCEPT !.pc = "commit", !.tree = EMPTY_TREE_HASH]
    /\ UNCHANGED <<file, cache, gone, mainRef, nUpd, last, srch, sv, genVars, qs, mr, pr, cl, sub>>

LinGenerate(ok) ==
    /\ lin.pc = "generate"
    /\ lin' = IF ok
              THEN [lin EXCEPT !.pc = "commit",
                               !.tree = lin.refs[lin.idx],
                               !.last_good_ref = lin.refs[lin.idx]]
              ELSE IF lin.parent_ref = << >>
                   THEN [lin EXCEPT !.pc = "commit", !.tree = EMPTY_TREE_HASH]
                   ELSE [lin EXCEPT !.pc = "commit"]
    /\ UNCHANGED <<file, cache, gone, mainRef, nUpd, last, srch, sv, genVars, qs, mr, pr, cl, sub>>

\* git_pile.py 1508-1530: the commit object of tree, parent_ref and the
\* metadata of the revision; fatal() raises when git hash-object fails
LinHashObject(ok) ==
    /\ lin.pc = "commit"
    /\ lin' = IF ok
              THEN [lin EXCEPT !.pc = "note",
                               !.parent_ref = Append(@, [rev |-> lin.refs[lin.idx],
                                                         tree |-> lin.tree])]
              ELSE LinRaise(lin, "raise")
    /\ UNCHANGED <<file, cache, gone, mainRef, nUpd, last, srch, sv, genVars, qs, mr, pr, cl, sub>>

\* git_pile.py 1532-1536: git notes add -f "pile-commit: rev"
LinNote ==
    /\ lin.pc = "note"
    /\ lin' = [lin EXCEPT !.pc = "update",
                          !.notes = NotesAdd(@, lin.parent_ref, lin.refs[lin.idx])]
    /\ UNCHANGED <<file, cache, gone, mainRef, nUpd, last, srch, sv, genVars, qs, mr, pr, cl, sub>>

\* git_pile.py 1538-1543: git update-ref of the linear branch, then the
\* next revision, or "Done." and return 0 after the last
LinUpdateRef ==
    /\ lin.pc = "update"
    /\ lin' = IF lin.idx = Len(lin.refs)
              THEN [lin EXCEPT !.head = lin.parent_ref, !.idx = @ + 1,
                               !.pc = "idle", !.exit = "0"]
              ELSE [lin EXCEPT !.head = lin.parent_ref, !.idx = @ + 1,
                               !.pc = "generate"]
    /\ UNCHANGED <<file, cache, gone, mainRef, nUpd, last, srch, sv, genVars, qs, mr, pr, cl, sub>>

\* git_pile.py 1484-1485 and main 2025-2027: KeyboardInterrupt ends the
\* run where it is, exit code 130
LinInterrupt ==
    /\ lin.pc # "idle"
    /\ lin' = LinRaise(lin, "130")
    /\ UNCHANGED <<file, cache, gone, mainRef, nUpd, last, srch, sv, genVars, qs, mr, pr, cl, sub>>

NextLinear ==
    \/ PileCommit
    \/ \E fork \in 1..MaxRevs : PileMerge(fork)
    \/ \E incremental \in BOOLEAN : LinStart(incremental)
    \/ \E ok \in BOOLEAN : LinGenerate(ok)
    \/ \E ok \in BOOLEAN : LinHashObject(ok)
    \/ LinNote
    \/ LinUpdateRef
    \/ LinInterrupt

SpecLinear == Init /\ [][NextLinear]_vars

\* ------------------------------------------------------------ main and the interrupt
\* The process ends: the exit status is what main returned, 1 after
\* sys.exit(1) of fatal() and after an exception nothing catches.
SubEnd(r, status) == [r EXCEPT !.pc = "idle", !.exit = status]

\* main 2020-2026: parse_args and args.func(args), here genbranch, in
\* place or in a temporary worktree, up to the application of the patches
SubStart(inplace, configured, patches) ==
    /\ sub.pc = "idle"
    /\ sub.n < MaxRuns
    /\ sub' = [NoSub EXCEPT !.pc = "body", !.n = sub.n + 1, !.inplace = inplace,
                            !.configured = configured, !.patches = patches]
    /\ UNCHANGED <<file, cache, gone, mainRef, nUpd, last, srch, sv, genVars, qs, mr, pr, lin, cl>>

\* _genbranch 1370-1371, 1384: with a patch list, in place the with
\* statement of git_split_index is entered and git am started, otherwise
\* git am is started in the temporary worktree
SubEnter ==
    /\ sub.pc = "body"
    /\ sub' = IF sub.patches = 0 THEN [sub EXCEPT !.pc = "tail"]
              ELSE IF sub.inplace THEN [sub EXCEPT !.pc = "scope"]
              ELSE [sub EXCEPT !.pc = "worktree"]
    /\ UNCHANGED <<file, cache, gone, mainRef, nUpd, last, srch, sv, genVars, qs, mr, pr, lin, cl>>

\* git am goes through the patch list: one more patch is applied, or it
\* stops at one that does not apply.  In place git_can_fail returns and
\* ret is bound; in the worktree git() raises CalledProcessError when git
\* am fails.
SubApply(ok) ==
    /\ sub.pc \in {"scope", "worktree"}
    /\ sub' = IF ok /\ sub.applied + 1 < sub.patches
              THEN [sub EXCEPT !.applied = @ + 1]
              ELSE IF sub.pc = "scope"
              THEN [sub EXCEPT !.pc = "tail",
                               !.applied = IF ok THEN @ + 1 ELSE @,
                               !.ret = IF ok THEN "0" ELSE "1"]
              ELSE IF ok THEN [sub EXCEPT !.pc = "tail", !.applied = @ + 1]
              ELSE SubEnd(sub, "1")
    /\ UNCHANGED <<file, cache, gone, mainRef, nUpd, last, srch, sv, genVars, qs, mr, pr, lin, cl>>

\* _genbranch 1374-1380, 1405: fatal() on the conflict, or return 0
SubReturn ==
    /\ sub.pc = "tail"
    /\ sub' = IF sub.ret = "1" THEN SubEnd(sub, "1") ELSE SubEnd(sub, "0")
    /\ UNCHANGED <<file, cache, gone, mainRef, nUpd, last, srch, sv, genVars, qs, mr, pr, lin, cl>>

\* KeyboardInterrupt.  Inside the with statement of git_split_index, with
\* core.splitIndex set, the generator ends in `finally: return` (204-208):
\* the exception is dropped there, the with statement is left as if it
\* had completed, and ret.returncode is read while ret is unbound:
\* UnboundLocalError, which main does not catch.  Anywhere else the
\* exception reaches main, which returns 130.
SubInterrupt ==
    /\ sub.pc # "idle"
    /\ sub' = IF sub.pc = "scope" /\ sub.configured
              THEN SubEnd([sub EXCEPT !.interrupted = TRUE], "1")
              ELSE SubEnd([sub EXCEPT !.interrupted = TRUE], "130")
    /\ UNCHANGED <<file, cache, gone, mainRef, nUpd, last, srch, sv, genVars, qs, mr, pr, lin, cl>>

NextMain ==
    \/ \E inplace, configured \in BOOLEAN, patches \in 0..MaxPatches :
           SubStart(inplace, configured, patches)
    \/ SubEnter
    \/ \E ok \in BOOLEAN : SubApply(ok)
    \/ SubReturn
    \/ SubInterrupt

SpecMain == Init /\ [][NextMain]_vars

\* ------------------------------------------------------------ claims
LastCommits == RevList(last.baseline, last.head, mainRef)

\* the object store lacks none of the commits of the last update
LastAllExist(g) == \A i \in 1..Len(LastCommits) : LastCommits[i] \notin g

\* the head of the last update is N commits ahead of the baseline
LastAhead == last.head.base = Resolve(Rev(last.baseline), mainRef).base

LastSearch(g) ==
    SearchBestBase(cache.trees[cache.ident], last.baseline, last.hashes, g, mainRef)

\* the commits cached along the path of a series
PathCommits(tree, baseline, hashes, ref) ==
    IF <<baseline>> \in DOMAIN tree
    THEN {Resolve(c, ref) : c \in Range(SearchNodes(tree, baseline, hashes))}
    ELSE {}

\* the sets of commits the object store may lack, among those search_best_base
\* can probe for the series updated last
GonePatterns ==
    SUBSET PathCommits(cache.trees[cache.ident], last.baseline, last.hashes, mainRef)

\* C1: after update(series, head), head being N commits ahead of the baseline
\* and the N commits existing, search_best_base(series) returns offset N and
\* the head: its commit id, or, for an empty series on a symbolic baseline,
\* the baseline revision, which names the head.
C1_UpdateThenSearch ==
    (last.op = "update" /\ LastAhead) =>
        \A g \in GonePatterns : LastAllExist(g) =>
            /\ LastSearch(g).offset = Len(last.hashes)
            /\ Resolve(LastSearch(g).commit, mainRef) = last.head
            /\ (last.baseline \in BaseCommits \/ last.hashes # << >>)
                   => LastSearch(g).commit = last.head

\* an update of two patches that corrects the path an earlier update cached
\* for another head, the file holding the earlier cache
C1_Witness ==
    /\ last.op = "update" /\ LastAhead
    /\ Len(last.hashes) = 2
    /\ file.kind = "pickle"
    /\ LET path == <<last.baseline>> \o last.hashes
           old == Load(file)
       IN  /\ cache.ident \in DOMAIN old
           /\ path \in DOMAIN old[cache.ident]
           /\ old[cache.ident][path].commit # last.head
    /\ LastSearch({}).offset = 2

\* position i of the path being searched holds a commit the object store has
NodeExists(i) == Resolve(srch.nodes[i + 1], mainRef) \notin gone

\* positions 0..k-1 exist and positions k..L-1 do not
ValidPrefix(k) ==
    /\ k \in 1..Len(srch.nodes)
    /\ \A i \in 0..(Len(srch.nodes) - 1) : NodeExists(i) <=> i < k

\* C2: on a path whose commits exist at positions 0..k-1 and are missing from
\* position k on, the loop keeps every position <= base existing and every
\* position > head missing, every iteration narrows head - base, so that it
\* ends, and the result is the commit at position k-1 with offset k-1.
C2_BinarySearchBoundary ==
    \A k \in 1..(MaxPath + 2) :
        (srch.pc \in {"loop", "done"} /\ srch.nodes # << >> /\ ValidPrefix(k)) =>
            /\ \A i \in 0..(Len(srch.nodes) - 1) :
                   /\ i <= srch.st.base => NodeExists(i)
                   /\ i > srch.st.head => ~NodeExists(i)
            /\ srch.st.base <= srch.st.head
            /\ srch.iter + (srch.st.head - srch.st.base) <= Len(srch.nodes) - 1
            /\ srch.pc = "done" =>
                   srch.result = [commit |-> srch.nodes[k], offset |-> k - 1]

\* a finished search of a path of five nodes of which the last two are missing
C2_Witness ==
    /\ srch.pc = "done"
    /\ Len(srch.nodes) = 5
    /\ ValidPrefix(3)
    /\ srch.iter >= 2
    /\ srch.result.offset = 2

C4_SaveReloadRoundTrip ==
    last.op = "save" =>
        LET loaded == Load(file)
        IN  /\ loaded = cache.trees
            /\ \A s \in IdentStrings : \A k \in DOMAIN cache.trees :
                   WithIdent(loaded, StripDate(s))[k] = cache.trees[k]
            /\ \A k \in DOMAIN cache.trees, b \in BaselineArgs, h \in Series :
                   \A g \in SUBSET PathCommits(cache.trees[k], b, h, mainRef) :
                       SearchBestBase(loaded[k], b, h, g, mainRef)
                           = SearchBestBase(cache.trees[k], b, h, g, mainRef)

\* a saved tree whose baseline node got the child q before the child p and
\* that is two patches deep
C4_Witness ==
    /\ last.op = "save"
    /\ \E k \in DOMAIN cache.trees :
           /\ <<"B1">> \in DOMAIN cache.trees[k]
           /\ cache.trees[k][<<"B1">>].children = <<"q", "p">>
           /\ <<"B1", "p", "q">> \in DOMAIN cache.trees[k]
    /\ file = Pickle(SCHEMA_VERSION, cache.trees)

\* a cache file GenbranchCache cannot use
Unusable(f) == f.kind # "pickle" \/ f.schema # SCHEMA_VERSION

\* C5: a GenbranchCache constructed from a missing, undecodable or
\* other-schema file holds the empty tree of its identity and nothing else,
\* and search_best_base for a baseline B without entry returns (B, 0).
C5_UnusableFileStartsEmpty ==
    /\ cache.live => cache.ident \in DOMAIN cache.trees
    /\ (cache.live /\ Unusable(file)) =>
           cache.trees = [k \in {cache.ident} |-> EmptyTree]
    /\ (srch.pc = "done" /\ <<srch.baseline>> \notin DOMAIN cache.trees[cache.ident]) =>
           srch.result = [commit |-> Rev(srch.baseline), offset |-> 0]

\* a finished search in a cache constructed from a file of a newer schema that
\* holds a path for the searched series
C5_Witness ==
    /\ cache.live
    /\ file.kind = "pickle" /\ file.schema = SCHEMA_VERSION + 1
    /\ cache.ident \in DOMAIN file.data
    /\ srch.pc = "done"
    /\ srch.hashes # << >>
    /\ <<srch.baseline>> \o srch.hashes \in DOMAIN UnflattenTree(file.data[cache.ident])
    /\ srch.result.offset = 0

\* C6: from the moment save() starts, the cache file is the complete image it
\* held before or the complete image save() writes, never a truncated one:
\* the old image until the rename, also when the write or the rename fails or
\* the process is killed, and the new image after the rename.
C6_AtomicSave ==
    sv.pc # "idle" =>
        /\ file \in {sv.old, sv.new}
        /\ file.kind # "partial"
        /\ sv.pc \in {"writing", "written", "raised", "killed"} => file = sv.old
        /\ sv.pc = "done" => file = sv.new /\ Load(file) = Load(sv.new)

\* the process was killed while the temporary file was half written, the cache
\* file holding the image of an earlier save() of other trees
C6_Witness ==
    /\ sv.pc = "killed"
    /\ sv.tmp.kind = "partial"
    /\ sv.old.kind = "pickle"
    /\ sv.new # sv.old
    /\ file = sv.old

\* name and email of an identity string
NameEmail(s) == <<s[1], s[2]>>

\* the committers of a commit's patches
Committers(c) == {c.chain[i].by : i \in DOMAIN c.chain}

C7_Partition ==
    /\ \A s1, s2 \in IdentStrings :
           (NameEmail(s1) = NameEmail(s2)) <=> (StripDate(s1) = StripDate(s2))
    /\ cache.live => \E s \in IdentStrings : cache.ident = NameEmail(s)
    /\ \A k \in DOMAIN cache.trees : \A c \in TreeCommits(cache.trees[k], mainRef) :
           Committers(c) \subseteq {k}
    /\ cache.live =>
           \A b \in BaselineArgs, h \in Series :
               \A g \in SUBSET PathCommits(cache.trees[cache.ident], b, h, mainRef) :
                   Committers(SearchBestBase(cache.trees[cache.ident], b, h, g, mainRef).commit)
                       \subseteq {cache.ident}

C7_Frame ==
    nUpd' # nUpd =>
        \A k \in DOMAIN cache.trees \ {cache.ident} :
            /\ k \in DOMAIN cache'.trees
            /\ cache'.trees[k] = cache.trees[k]
            /\ \A b \in BaselineArgs, h \in Series :
                   SearchBestBase(cache'.trees[k], b, h, {}, mainRef)
                       = SearchBestBase(cache.trees[k], b, h, {}, mainRef)

\* C7: the trees are keyed by name and email: identity strings that differ
\* only in date and timezone share a tree and others do not, a tree holds only
\* commits of its own identity, search_best_base returns only such commits,
\* and an update leaves the tree of every other identity, and so what
\* search_best_base returns under it, unchanged.
C7_IdentityPartition == [](C7_Partition) /\ [][C7_Frame]_vars

\* an update under one identity in a cache that holds a path of another
\* identity, loaded from the file
C7_Witness ==
    /\ last.op = "update"
    /\ last.hashes # << >>
    /\ \E k \in DOMAIN cache.trees \ {cache.ident} :
           <<last.baseline>> \o last.hashes \in DOMAIN cache.trees[k]
    /\ LastSearch({}).offset = Len(last.hashes)

\* every patch of the series applies with git am
AllClean(series) == CleanPrefix(series) = Len(series)

\* C8: a clean, cached run on an empty cache and a series of N patches that
\* all apply returns 0 having applied N patches and created N commits, and the
\* cache file then holds them under the series' path; the identical run that
\* follows gets offset N, has nothing left to apply, creates no commit,
\* returns 0 and leaves the branch at the head of the first run.
C8_SecondRunReusesAll ==
    (/\ run.pc = "idle"
     /\ run.prev.kept
     /\ run.prev.args = run.args
     /\ run.prev.series = run.series
     /\ AllClean(run.series)) =>
        LET N == Len(run.series)
            ident == StripDate(GenIdent)
            found == Load(run.file0)
        IN  /\ run.prev.exit = "0"
            /\ run.prev.applied = N
            /\ run.prev.created = N
            /\ Len(run.prev.head.chain) = N
            /\ ident \in DOMAIN found
            /\ \A i \in 0..N :
                   /\ <<GenBaseline>> \o SubSeq(run.series, 1, i) \in DOMAIN found[ident]
                   /\ found[ident][<<GenBaseline>> \o SubSeq(run.series, 1, i)].commit
                          = [run.prev.head EXCEPT !.chain = SubSeq(@, 1, i)]
            /\ run.offset = N
            /\ run.patchlist = << >>
            /\ run.applied = 0
            /\ run.created = 0
            /\ run.exit = "0"
            /\ branch = run.prev.head

\* the second of two identical worktree runs on three patches, returned
C8_Witness ==
    /\ run.pc = "idle"
    /\ run.n = 2
    /\ run.prev.kept
    /\ run.prev.args = run.args
    /\ ~run.args.inplace
    /\ run.prev.series = run.series
    /\ run.series = <<"p", "q", "r">>
    /\ run.offset = 3
    /\ Len(branch.chain) = 3

\* C9: a run calls cache.update and cache.save only when it returns 0 and was
\* not dirty, had caching enabled, --fix-whitespace off and
\* committer-date-is-author-date on, applied every patch of its list and used
\* no fallback; a run that does not call them leaves the cache file as it
\* found it.
C9_CacheWrittenOnlyByCleanRuns ==
    /\ run.updated =>
           /\ run.pc = "idle" /\ run.exit = "0"
           /\ ~run.args.dirty
           /\ run.args.use_cache
           /\ ~run.args.fix_ws
           /\ run.args.cdiad
           /\ run.applied = Len(run.patchlist)
           /\ ~run.any_fallback
    /\ ~run.updated => file = run.file0

\* an in-place run with the cache that got through with a fallback and
\* returned 0, the cache file holding what an earlier run saved
C9_Witness ==
    /\ run.pc = "idle"
    /\ run.exit = "0"
    /\ run.args.inplace
    /\ cache.live
    /\ run.any_fallback
    /\ ~run.updated
    /\ file.kind = "pickle"
    /\ file = run.file0

\* C10: an in-place run that used a fallback has emitted the warning about the
\* fallbacks when it ends, whether it returns 0 or ends in fatal() on a
\* conflict in a later patch.
C10_FallbackAlwaysWarns ==
    (run.pc = "idle" /\ run.args.inplace /\ run.any_fallback) =>
        "fallbacks used" \in run.warned

\* C11: a --dirty run creates no commit, constructs no cache and leaves the
\* cache file alone, and when it was free to apply its patches and all of them
\* apply it returns 0, in place and in a temporary worktree.
C11_DirtyRunReturnsZero ==
    (run.pc = "idle" /\ run.n > 0 /\ run.args.dirty) =>
        /\ run.created = 0
        /\ ~cache.live
        /\ ~run.updated
        /\ file = run.file0
        /\ (run.checked /\ AllClean(run.series)) => run.exit = "0"

\* the items that appeared in an update call
Appeared == UNION {Range(c) : c \in Range(qs.calls)}

\* C12: after build(), index(x) is defined exactly for the items that
\* appeared in an update call, generate_sets() returns a list,
\* generate_sets()[index(x)] contains x, and the sets are non-empty, pairwise
\* disjoint and numbered 0..n-1, n being the number of classes.
C12_EveryItemInOneClass ==
    qs.built =>
        LET r == GenerateSets(qs.idx)
        IN  /\ DOMAIN qs.idx = Appeared
            /\ ~r.raised
            /\ \A x \in Appeared : qs.idx[x] \in DOMAIN r.sets /\ x \in r.sets[qs.idx[x]]
            /\ \A i \in DOMAIN r.sets : r.sets[i] # {}
            /\ \A i, j \in DOMAIN r.sets : i # j => r.sets[i] \cap r.sets[j] = {}
            /\ DOMAIN r.sets = 0..(Cardinality({qs.idx[x] : x \in Appeared}) - 1)

RECURSIVE Linked(_, _, _)
\* the items linked to those of S through at most n update calls
Linked(S, calls, n) ==
    IF n = 0 THEN S
    ELSE Linked(S \cup UNION {Range(c) : c \in {d \in Range(calls) : Range(d) \cap S # {}}},
                calls, n - 1)

\* the class a union-find gives the item x
Component(x) == Linked({x}, qs.calls, Cardinality(Items))

\* two index maps put the items of the first in the same classes
SamePartition(idx1, idx2) ==
    /\ DOMAIN idx1 \subseteq DOMAIN idx2
    /\ \A x, y \in DOMAIN idx1 : (idx1[x] = idx1[y]) <=> (idx2[x] = idx2[y])

\* C13: after build(), index(x) = index(y) exactly when a chain of update
\* calls that share items links x and y, as in a union-find, for the calls in
\* every order and their arguments in every order; and one more update call
\* with a single item leaves the items in the classes they had.
C13_PartitionIsConnectedComponents ==
    /\ qs.built =>
           /\ DOMAIN qs.idx = Appeared
           /\ \A x, y \in Appeared : (qs.idx[x] = qs.idx[y]) <=> (y \in Component(x))
    /\ \A x \in Items :
           SamePartition(Build(qs.graph), Build(AddCycle(qs.graph, <<x>>)))

\* two items in one class that no update call named together, one of the
\* calls having three arguments
C13_Witness ==
    /\ qs.built
    /\ \E x, y \in DOMAIN qs.idx :
           /\ qs.idx[x] = qs.idx[y]
           /\ \A c \in Range(qs.calls) : ~({x, y} \subseteq Range(c))
    /\ \E c \in Range(qs.calls) : Len(c) = 3

\* the sha1 of each pick of a todo, in order
Picks(todo) ==
    LET isPick(l) == l.op = "pick"
        picks == SelectSeq(todo, isPick)
    IN  [i \in DOMAIN picks |-> picks[i].arg]

\* the conflict markers of a todo, in order
Markers(todo) ==
    LET isMarker(l) == l.op = "marker"
        ms == SelectSeq(todo, isMarker)
    IN  [i \in DOMAIN ms |-> ms[i].arg]

\* the run has ended: with a todo for the rebase, or with an exception
MrEnded == mr.pc \in {"todo", "raised"}

\* C14: merging a range with itself (other == current), whatever the base
\* and whatever the range (empty, or with commits that match each other),
\* gives a todo without conflict markers whose picks are the commits of
\* current, each once, in order.
C14_MergeWithSelfIsIdentity ==
    (MrEnded /\ mr.other = mr.current) =>
        /\ mr.pc = "todo"
        /\ Markers(mr.todo) = << >>
        /\ Picks(mr.todo) = Sha1s(mr.current)

\* the length of the longest common prefix of two sequences
CommonPrefix(a, b) ==
    CHOOSE k \in 0..Len(a) :
        /\ k <= Len(b)
        /\ \A i \in 1..k : a[i] = b[i]
        /\ ~(k < Len(a) /\ k < Len(b) /\ a[k + 1] = b[k + 1])

\* the length of their longest common suffix that leaves the prefix alone
CommonSuffix(a, b) ==
    LET p == CommonPrefix(a, b)
        fits(k) == /\ k + p <= Len(a) /\ k + p <= Len(b)
                   /\ \A i \in 0..(k - 1) : a[Len(a) - i] = b[Len(b) - i]
    IN  CHOOSE k \in 0..Len(a) : fits(k) /\ ~fits(k + 1)

\* The elements of base that a range changes, as the span [from, to] of
\* positions of base between the common prefix and the common suffix of
\* their index lists, commits that match being the same element; an
\* insertion has to = from.
Change(base, r) ==
    LET b == Indices(mr.idx, base)
        c == Indices(mr.idx, r)
    IN  [from |-> CommonPrefix(b, c), to |-> Len(b) - CommonSuffix(b, c),
         changed |-> b # c]

\* current and other both change base, and no element of base and no gap
\* between two elements is changed by both
DisjointEdits ==
    LET x == Change(mr.base, mr.current)
        y == Change(mr.base, mr.other)
    IN  /\ x.changed /\ y.changed
        /\ x.to <= y.from \/ y.to <= x.from
        /\ ~(x.from = x.to /\ y.from = y.to /\ x.from = y.from)

\* the same, with a commit of base that neither changes between the two
SeparatedEdits ==
    LET x == Change(mr.base, mr.current)
        y == Change(mr.base, mr.other)
    IN  /\ x.changed /\ y.changed
        /\ x.to < y.from \/ y.to < x.from

\* The merged sequence of two disjoint edits: current with the span that
\* other changes replaced by what other put there.
MergedSequence ==
    LET x == Change(mr.base, mr.current)
        y == Change(mr.base, mr.other)
        cur == Sha1s(mr.current)
        oth == Sha1s(mr.other)
        after == Len(mr.base) - y.to
        theirs == SubSeq(oth, y.from + 1, Len(oth) - after)
    IN  IF y.to <= x.from /\ ~(x.to <= y.from /\ x.from = x.to)
        THEN SubSeq(cur, 1, y.from) \o theirs \o SubSeq(cur, y.to + 1, Len(cur))
        ELSE SubSeq(cur, 1, Len(cur) - Len(mr.base) + y.from) \o theirs
                 \o SubSeq(cur, Len(cur) - after + 1, Len(cur))

\* C15: when current and other change disjoint elements of base, the todo
\* has no conflict markers and its picks are the merged sequence, a commit
\* that current has being picked from current and the others from other.
C15_DisjointEditsMergeCleanly ==
    (MrEnded /\ DisjointEdits) =>
        /\ mr.pc = "todo"
        /\ Markers(mr.todo) = << >>
        /\ Picks(mr.todo) = MergedSequence

\* the commits of the class of sha1 that a merged chunk can pick: those of
\* current if current has any, else those of other
PickedFrom(sha1) ==
    LET class == {x \in DOMAIN mr.idx : mr.idx[x] = mr.idx[sha1]}
        ours == class \cap Range(Sha1s(mr.current))
    IN  IF ours # {} THEN ours ELSE class \cap Range(Sha1s(mr.other))

\* C15 (amended): when a commit of base that neither range changes lies
\* between what current changes and what other changes, the todo has no
\* conflict markers and its picks are, in order, the merged sequence: one
\* pick for each of its commits, of the class of that commit, taken from
\* current if current has the class and from other if not (so the commit
\* itself, unless the ranges hold another commit that matches it).
C15_SeparatedEditsMergeCleanly ==
    (MrEnded /\ SeparatedEdits) =>
        /\ mr.pc = "todo"
        /\ Markers(mr.todo) = << >>
        /\ Len(Picks(mr.todo)) = Len(MergedSequence)
        /\ \A i \in DOMAIN MergedSequence :
               Picks(mr.todo)[i] \in PickedFrom(MergedSequence[i])

\* the example: base = A,B,C, current amends B, other appends D
C15_Witness ==
    /\ MrEnded /\ SeparatedEdits
    /\ Sha1s(mr.base) = <<"A", "B", "C">>
    /\ Sha1s(mr.current) = <<"A", "B'", "C">>
    /\ Sha1s(mr.other) = <<"A", "B", "C", "D">>
    /\ Picks(mr.todo) = <<"A", "B'", "C", "D">>

\* the markers and the picks of a todo, in order
MarkersAndPicks(todo) ==
    LET keep(l) == l.op \in {"marker", "pick"} IN SelectSeq(todo, keep)

\* base with its commit B replaced by the commit v
BaseWith(v) ==
    [i \in DOMAIN mr.base |-> IF mr.base[i].sha1 = "B" THEN CommitOf(v) ELSE mr.base[i]]

\* current and other replace the commit B of base by B' and B'', which
\* match neither B nor each other, and share every other commit
BothReplaceB ==
    /\ "B" \in Range(Sha1s(mr.base))
    /\ \E v, w \in {"B'", "B''"} :
           v # w /\ mr.current = BaseWith(v) /\ mr.other = BaseWith(w)

\* the pick lines of the commits
PickLines(sha1s) == [i \in DOMAIN sha1s |-> TodoLine("pick", sha1s[i])]

\* C16: when current and other replace the same commit B of base by
\* commits that match neither B nor each other, there is exactly one
\* conflict (one ours, one base and one theirs chunk) and the todo has, in
\* this order, the picks of the commits before B, "<<<<<<< OURS", the pick
\* of current's commit, "||||||| BASE", pick B, "=======", the pick of
\* other's commit, ">>>>>>> THEIRS", and the picks of the commits after B.
C16_SameCommitReplacedIsOneConflict ==
    (MrEnded /\ BothReplaceB) =>
        LET b == CHOOSE i \in DOMAIN mr.base : mr.base[i].sha1 = "B"
            cur == Sha1s(mr.current)
        IN  /\ mr.pc = "todo"
            /\ [i \in DOMAIN mr.chunks |-> mr.chunks[i].type]
                   = <<"merged", "ours", "base", "theirs", "merged">>
            /\ MarkersAndPicks(mr.todo) =
                   PickLines(SubSeq(cur, 1, b - 1))
                       \o <<TodoLine("marker", "<<<<<<< OURS"), TodoLine("pick", cur[b]),
                            TodoLine("marker", "||||||| BASE"), TodoLine("pick", "B"),
                            TodoLine("marker", "======="),
                            TodoLine("pick", mr.other[b].sha1),
                            TodoLine("marker", ">>>>>>> THEIRS")>>
                       \o PickLines(SubSeq(cur, b + 1, Len(cur)))

\* B replaced between A and C: picks outside the markers on both sides
C16_Witness ==
    /\ mr.pc = "todo" /\ BothReplaceB
    /\ Sha1s(mr.base) = <<"A", "B", "C">>
    /\ Sha1s(mr.current) = <<"A", "B'", "C">>
    /\ Len(MarkersAndPicks(mr.todo)) = 9

\* the series whose path is in the cache file
SeriesInFile ==
    LET trees == Load(file)
        ident == StripDate(GenIdent)
    IN  {s \in Series : ident \in DOMAIN trees /\ <<GenBaseline>> \o s \in DOMAIN trees[ident]}

\* C17: whatever the interleaving of the processes, the cache file is
\* missing (never written yet) or is an image that one process wrote in
\* full; no process is refused, blocked or made to fail by the other, and
\* the file after a replace is the image of the process that replaced it.
C17_FileIsOneProcessImage ==
    /\ file = FileMissing \/ file \in pr.images
    /\ pr.saved = {} => file = FileMissing
    /\ pr.saved # {} => \E s \in pr.saved : s \in SeriesInFile
    /\ \A p \in Procs : pr.procs[p].exit \in {"none", "0"}

\* the lost update: both processes returned 0, and the file lacks the
\* entries that one of them added
C17_Witness ==
    /\ \A p \in Procs : pr.procs[p].pc = "idle" /\ pr.procs[p].exit = "0"
    /\ \E s \in pr.saved : s \notin SeriesInFile

\* C18: when a run has ended, however it ended (return 0, return 1,
\* fatal(), an exception, a failed replace, KeyboardInterrupt), no
\* temporary worktree and no temporary file of save() is left.
C18_NothingLeftBehind ==
    cl.pc = "idle" =>
        /\ ~cl.patches_wt
        /\ ~cl.work_wt
        /\ cl.tmps = 0

\* The commits the run has synthesized so far, oldest first.
Synthesized == SubSeq(lin.parent_ref, Len(lin.top) + 1, Len(lin.parent_ref))

\* C19: in a run of genlinear-branch the synthesized commits are one per
\* revision of the range, oldest first, on top of the commit the run
\* started from; the commit of a revision carries the tree generated for
\* it, or, when generation failed, the tree of the commit before it, or
\* the empty tree when there is no commit before it; a failure does not
\* end the run: a run that returns 0 has a commit for every revision of
\* its range and the linear branch points to the last.
C19_OneCommitPerRevision ==
    /\ SubSeq(lin.parent_ref, 1, Len(lin.top)) = lin.top
    /\ Len(Synthesized) <= Len(lin.refs)
    /\ lin.pc \in {"generate", "commit"} => Len(Synthesized) = lin.idx - 1
    /\ lin.pc \in {"note", "update"} => Len(Synthesized) = lin.idx
    /\ \A i \in DOMAIN Synthesized :
           LET at == Len(lin.top) + i
           IN  /\ Synthesized[i].rev = lin.refs[i]
               /\ \/ Synthesized[i].tree = lin.refs[i]
                  \/ /\ at > 1
                     /\ Synthesized[i].tree = lin.parent_ref[at - 1].tree
                  \/ /\ at = 1
                     /\ Synthesized[i].tree = EMPTY_TREE_HASH
    /\ (lin.pc = "idle" /\ lin.exit = "0" /\ lin.refs # << >>) =>
           /\ Len(Synthesized) = Len(lin.refs)
           /\ lin.head = lin.parent_ref

\* a run has returned 0 after generation failed for its first revision
\* with no commit before it, failed again for a later revision and
\* succeeded for another
C19_Witness ==
    /\ lin.pc = "idle"
    /\ lin.exit = "0"
    /\ lin.top = << >>
    /\ Len(lin.refs) >= 3
    /\ lin.head[1].tree = EMPTY_TREE_HASH
    /\ \E i \in 2..Len(lin.head) :
           /\ lin.head[i].tree = lin.refs[i]
           /\ i < Len(lin.head)
           /\ lin.head[i + 1].tree = lin.refs[i]

\* The pile revisions of the commits of the linear branch, oldest first.
Represented == [i \in DOMAIN lin.head |-> lin.head[i].rev]

\* C20: whatever runs came before, completed or interrupted, with or
\* without incremental mode, no pile revision is on the linear branch
\* twice, the revisions are in the order of the pile, and after a run
\* that returned 0 every revision that git rev-list gives for the pile
\* branch is on the linear branch.
C20_EveryRevisionOnceInOrder ==
    /\ \A i, j \in DOMAIN Represented :
           i < j => Represented[i] < Represented[j]
    /\ (lin.pc = "idle" /\ lin.exit = "0") =>
           \A r \in Range(PileRevList(lin.pile, 0, lin.pile_branch)) :
               r \in Range(Represented)

\* C21: a run in a temporary worktree whose branch is checked out
\* elsewhere and that has no --force ends with return value 1 and no patch
\* applied, and one whose patches do not all apply ends in the exception
\* of the git command; from the start of either run to its end the result
\* branch and the cache file stay as they were.
C21_FailedWorktreeRunChangesNothing ==
    [][ /\ (run.pc = "idle" /\ run'.pc = "wt") =>
               /\ branch' = branch
               /\ file' = file
        /\ (run.pc = "wt" /\ run.args.blocked /\ ~run.args.force) =>
               /\ run'.pc = "idle"
               /\ run'.exit = "1"
               /\ run'.applied = 0
               /\ branch' = branch
               /\ file' = file
               /\ file' = run.file0
        /\ (run.pc = "wt" /\ CleanPrefix(run.patchlist) # Len(run.patchlist)) =>
               /\ run'.pc = "idle"
               /\ run'.exit \in {"1", "raise"}
               /\ branch' = branch
               /\ file' = file
               /\ file' = run.file0
      ]_vars

\* a run in a temporary worktree returned 1 because the branch is checked
\* out elsewhere, after an earlier run had made the branch and the cache
\* file; the patches of its list would all have applied
C21_Witness ==
    /\ run.pc = "idle"
    /\ run.n = 2
    /\ ~run.args.inplace
    /\ run.args.blocked
    /\ ~run.args.force
    /\ run.exit = "1"
    /\ run.patchlist # << >>
    /\ CleanPrefix(run.patchlist) = Len(run.patchlist)
    /\ file.kind = "pickle"
    /\ branch # NoCommit

\* the paths of all the trees of a cache: identity, baseline, patch hashes
CachePaths(trees) ==
    UNION {{<<ident, p>> : p \in DOMAIN trees[ident]} : ident \in DOMAIN trees}

\* C22: every path of the cache before an update call is a path of the
\* cache after it.
C22_PathsNeverLost ==
    [][ nUpd' = nUpd + 1 =>
            CachePaths(cache.trees) \subseteq CachePaths(cache'.trees) ]_vars

\* C22, amended: a path of the cache before an update call is a path of
\* the cache after it unless it runs through a node in which the update
\* stored another commit; the paths below such a node are dropped with it.
C22_PathsLostOnlyBelowReplacedNode ==
    [][ nUpd' = nUpd + 1 =>
            \A ident \in DOMAIN cache.trees :
                /\ ident \in DOMAIN cache'.trees
                /\ \A p \in DOMAIN cache.trees[ident] :
                       \/ p \in DOMAIN cache'.trees[ident]
                       \/ \E k \in 1..(Len(p) - 1) :
                              LET q == SubSeq(p, 1, k)
                              IN  /\ q \in DOMAIN cache'.trees[ident]
                                  /\ cache'.trees[ident][q].commit #
                                         cache.trees[ident][q].commit ]_vars

\* after a second update call the tree holds the path of one series next
\* to the path of another
C22_Witness ==
    /\ nUpd = 2
    /\ last.op = "update"
    /\ cache.live
    /\ <<"B1", "p", "q">> \in DOMAIN cache.trees[cache.ident]
    /\ <<"B1", "q">> \in DOMAIN cache.trees[cache.ident]

\* C23: a process that got a KeyboardInterrupt while its subcommand ran
\* ends with exit status 130, wherever the interrupt arrived.
C23_InterruptExits130 ==
    (sub.pc = "idle" /\ sub.interrupted) => sub.exit = "130"

\* the lines of the output of git merge-file that are no markers
RECURSIVE NoMarkers(_)
NoMarkers(lines) ==
    IF lines = << >> THEN << >>
    ELSE IF Head(lines).k \in {"index", "empty"}
         THEN <<Head(lines)>> \o NoMarkers(Tail(lines))
         ELSE NoMarkers(Tail(lines))

\* the indices of the chunks, one chunk after the other
RECURSIVE ChunkIndices(_)
ChunkIndices(chunks) ==
    IF chunks = << >> THEN << >>
    ELSE Head(chunks).indices \o ChunkIndices(Tail(chunks))

\* the output of git merge-file has been parsed, or the parsing has raised
MrParsed == mr.pc \in {"chunks", "todo"} \/ (mr.pc = "raised" /\ mr.result_lines # << >>)

\* C24: whatever git merge-file printed, the parsing gives a chunk list:
\* it starts with a merged chunk, the types follow the cycle merged, ours,
\* base, theirs, merged, and the indices of the chunks, one chunk after the
\* other, are the lines of the output that are no markers, in their order.
C24_ChunksKeepEveryLine ==
    MrParsed =>
        /\ mr.chunks # << >>
        /\ mr.chunks[1].type = "merged"
        /\ \A i \in 2..Len(mr.chunks) :
               mr.chunks[i].type = ChunkAfter(mr.chunks[i - 1].type)
        /\ LET kept == NoMarkers(mr.result_lines)
           IN  /\ Len(ChunkIndices(mr.chunks)) = Len(kept)
               /\ \A i \in DOMAIN kept :
                      /\ kept[i].k = "index"
                      /\ ChunkIndices(mr.chunks)[i] = kept[i].n

\* the indices of the chunks, each with the type of its chunk
RECURSIVE TypedIndices(_)
TypedIndices(chunks) ==
    IF chunks = << >> THEN << >>
    ELSE [i \in DOMAIN Head(chunks).indices |->
             [type |-> Head(chunks).type, idx |-> Head(chunks).indices[i]]]
         \o TypedIndices(Tail(chunks))

\* the commits a pick may name for an index of a chunk of the given type
Pickable(type, idx) ==
    LET class == {x \in DOMAIN mr.idx : mr.idx[x] = idx}
        cur == class \cap Range(Sha1s(mr.current))
        base == class \cap Range(Sha1s(mr.base))
        oth == class \cap Range(Sha1s(mr.other))
    IN  CASE type = "merged" -> IF cur # {} THEN cur ELSE oth
          [] type = "ours" -> cur
          [] type = "base" -> base
          [] OTHER -> oth

\* C25: the todo has one pick per index of the chunks, in their order, and
\* each names a commit of the class of its index and of the range of its
\* chunk: current for ours, base for base, other for theirs, for merged
\* current when the class has a commit of current and other when not; the
\* class always has such a commit, so the exception "sha1 not found for
\* index" is not raised, and a run that raised has no todo.
C25_PickOfClassAndRange ==
    /\ mr.pc = "todo" =>
           /\ Len(Picks(mr.todo)) = Len(TypedIndices(mr.chunks))
           /\ \A i \in DOMAIN Picks(mr.todo) :
                  Picks(mr.todo)[i] \in Pickable(TypedIndices(mr.chunks)[i].type,
                                                  TypedIndices(mr.chunks)[i].idx)
    /\ mr.pc \in {"chunks", "todo"} =>
           \A i \in DOMAIN TypedIndices(mr.chunks) :
               Pickable(TypedIndices(mr.chunks)[i].type,
                        TypedIndices(mr.chunks)[i].idx) # {}
    /\ mr.pc = "raised" => (mr.todo = << >> /\ mr.error # "Exception")

\* a todo with a conflict, so with picks of ours, base and theirs chunks, and
\* with a merged chunk that holds an index of a class that has a commit of
\* current and another commit outside current
C25_Witness ==
    /\ mr.pc = "todo"
    /\ \E i \in DOMAIN TypedIndices(mr.chunks) :
           TypedIndices(mr.chunks)[i].type = "base"
    /\ \E i \in DOMAIN TypedIndices(mr.chunks) :
           LET t == TypedIndices(mr.chunks)[i]
               class == {x \in DOMAIN mr.idx : mr.idx[x] = t.idx}
           IN  /\ t.type = "merged"
               /\ class \cap Range(Sha1s(mr.current)) # {}
               /\ class \ Range(Sha1s(mr.current)) # {}

\* the node of the k-th patch of the series on its baseline
UpdPath(baseline, hashes, k) == <<baseline>> \o SubSeq(hashes, 1, k)

\* zip(series_hashes, commits): the patches the loop of update visits
UpdLen(hashes, commits) ==
    IF Len(hashes) < Len(commits) THEN Len(hashes) ELSE Len(commits)

\* the first patch of the series whose node is missing from the tree or
\* holds another commit than the listed one; one more than the patches
\* visited when there is none
FirstReplaced(tree, baseline, hashes, commits) ==
    LET n == UpdLen(hashes, commits)
        bad == {k \in 1..n :
                   \/ UpdPath(baseline, hashes, k) \notin DOMAIN tree
                   \/ tree[UpdPath(baseline, hashes, k)].commit # commits[k]}
    IN  IF bad = {} THEN n + 1
        ELSE CHOOSE k \in bad : \A j \in bad : k <= j

\* the children an on-path node has after the call besides the ones it had
UpdNextKey(hashes, n, k) == IF k < n THEN {hashes[k + 1]} ELSE {}

\* C26: an update call leaves the trees of the other identities as they
\* were and, in the tree of the current identity, every node off the path
\* (baseline, hash_1, ..., hash_n): the other baselines, the siblings of the
\* nodes of the path and all below them; a node of the path that held the
\* listed commit keeps it and its children, any other holds the listed
\* commit and no child but the next node of the path.
C26_OnlyPathNodesChange ==
    [][ nUpd' = nUpd + 1 =>
            LET old == cache.trees[cache.ident]
                new == cache'.trees[cache.ident]
                b == last'.baseline
                h == last'.hashes
                commits == RevList(b, last'.head, mainRef)
                n == UpdLen(h, commits)
                path == {UpdPath(b, h, k) : k \in 0..n}
            IN  /\ \A i \in DOMAIN cache.trees \ {cache.ident} :
                       i \in DOMAIN cache'.trees /\ cache'.trees[i] = cache.trees[i]
                /\ \A p \in DOMAIN old \ (path \cup {<< >>}) :
                       p \in DOMAIN new /\ new[p] = old[p]
                /\ \A k \in 1..n :
                       LET p == UpdPath(b, h, k)
                       IN  /\ p \in DOMAIN new
                           /\ new[p].commit = commits[k]
                           /\ IF p \in DOMAIN old /\ old[p].commit = commits[k]
                              THEN Range(old[p].children) \subseteq Range(new[p].children)
                              ELSE Range(new[p].children) \subseteq UpdNextKey(h, n, k) ]_vars

\* what update(series, head) does to the tree of the current identity, r
\* being the first patch whose node is replaced and path[k + 1] the node of
\* the k-th patch
UpdFrameAt(old, new, h, commits, n, r, path) ==
    LET on == Range(path)
        below == {p \in DOMAIN old :
                     r <= n /\ IsPrefix(path[r + 1], p) /\ p # path[r + 1]}
    IN  /\ DOMAIN new = ((DOMAIN old \ below) \cup on) \cup {<< >>}
        /\ \A p \in (DOMAIN old \ below) \ (on \cup {<< >>}) : new[p] = old[p]
        /\ new[path[1]].commit = Rev(path[1][1])
        /\ \A k \in 0..n :
               LET p == path[k + 1]
               IN  IF k < r
                   THEN /\ p \in DOMAIN old => new[p].commit = old[p].commit
                        /\ k > 0 => new[p].commit = commits[k]
                        /\ Range(new[p].children) =
                               (IF p \in DOMAIN old
                                THEN Range(old[p].children) ELSE {})
                               \cup UpdNextKey(h, n, k)
                   ELSE /\ new[p].commit = commits[k]
                        /\ Range(new[p].children) = UpdNextKey(h, n, k)

UpdFrame(old, new, baseline, hashes, commits) ==
    \A n \in {UpdLen(hashes, commits)} :
        \A r \in {FirstReplaced(old, baseline, hashes, commits)} :
            \A path \in {[k \in 1..(n + 1) |-> UpdPath(baseline, hashes, k - 1)]} :
                UpdFrameAt(old, new, hashes, commits, n, r, path)

\* C26, amended: an update call leaves the trees of the other identities
\* as they were. In the tree of the current identity the nodes of the path
\* up to the first one that is missing or holds another commit keep their
\* commit and all their children; from that one on each node of the path
\* is a fresh node with the listed commit and no child but the next node
\* of the path, and every node that was below the replaced node is gone.
\* Every other node (other baselines, siblings of the nodes of the path
\* that are not below the replaced node) is unchanged, and no node appears
\* off the path.
C26_OffPathChangesOnlyBelowReplacedNode ==
    [][ nUpd' = nUpd + 1 =>
            /\ \A i \in DOMAIN cache.trees \ {cache.ident} :
                   i \in DOMAIN cache'.trees /\ cache'.trees[i] = cache.trees[i]
            /\ UpdFrame(cache.trees[cache.ident], cache'.trees[cache.ident],
                        last'.baseline, last'.hashes,
                        RevList(last'.baseline, last'.head, mainRef)) ]_vars

\* an update call has made the nodes of its series next to the path of
\* another series on the same baseline, which it left alone: the baseline
\* has two children, each with a child of its own, and the path of the
\* last series is in the tree
C26_Witness ==
    /\ nUpd = 2
    /\ last.op = "update"
    /\ cache.live
    /\ LET tree == cache.trees[cache.ident]
       IN  /\ <<last.baseline>> \in DOMAIN tree
           /\ Len(tree[<<last.baseline>>].children) = 2
           /\ Len(last.hashes) = 2
           /\ UpdPath(last.baseline, last.hashes, 2) \in DOMAIN tree
           /\ Cardinality(DOMAIN tree) = 6

\* C27: in a genbranch run a fallback is tried only with args.fuzzy true,
\* which it is by --fuzzy or by a yes at the prompt on a terminal; with
\* --no-fuzzy, and with neither option off a terminal, none is tried and
\* nobody is asked; the prompt is shown at most once in a run and only
\* with neither option, and args.fuzzy, once set, stays as it is for the
\* conflicts that follow.
C27_FallbackOnlyOnConsent ==
    /\ [](/\ run.tried =>
                /\ run.fuzzy = "yes"
                /\ \/ run.args.fuzzy = "yes"
                   \/ /\ run.args.fuzzy = "none"
                      /\ run.stdin = "tty"
                      /\ run.prompts = 1
          /\ run.args.fuzzy = "no" => (~run.tried /\ run.prompts = 0)
          /\ (run.args.fuzzy = "none" /\ run.stdin = "pipe") =>
                 (~run.tried /\ run.prompts = 0 /\ run.fuzzy = "no")
          /\ run.prompts <= 1
          /\ run.prompts = 1 => run.args.fuzzy = "none")
    /\ [][ (run'.n = run.n /\ run.fuzzy # "none") => run'.fuzzy = run.fuzzy ]_vars

\* a run without --fuzzy and --no-fuzzy has met two conflicts: the user was
\* asked once and said yes, the fallback applied the first patch, was tried
\* on the second without another question and failed
C27_Witness ==
    /\ run.pc = "idle"
    /\ run.args.fuzzy = "none"
    /\ run.prompts = 1
    /\ run.tried
    /\ run.any_fallback
    /\ run.next = 2
    /\ run.exit = "fatal"

\* in-place genbranch runs whose process goes on: an iteration of the while loop that
\* has begun is carried out (the person at the terminal answers the prompt)
NextGenLoop ==
    \/ \E a \in GenArgs, series \in GenSeries : a.inplace /\ GenStart(a, series)
    \/ GenAm
    \/ \E tty, answer, stall \in BOOLEAN : GenFallback(tty, answer, stall)
    \/ GenPost

SpecGenLoop ==
    /\ Init
    /\ [][NextGenLoop]_vars
    /\ WF_vars(\E tty, answer, stall \in BOOLEAN : GenFallback(tty, answer, stall))

\* C28: the while loop of an in-place run ends.  An iteration after which
\* the loop goes on has moved the counter of the next patch forward, and the
\* counter never passes the end of the patch list; the loop that was
\* entered is left; and the run that leaves it with git am having returned
\* 0 has applied its whole patch list and returns 0, with anything else it
\* ends in fatal() with the conflict message.
C28_FallbackLoopEnds ==
    /\ [][ (run.pc = "loop" /\ run'.pc = "loop") =>
               (run'.n = run.n /\ run'.next > run.next) ]_vars
    /\ [](run.pc = "loop" => (run.ret # 0 /\ run.next <= Len(run.patchlist)))
    /\ [][ (run.pc = "loop" /\ run'.pc # "loop") =>
               /\ run'.pc = "post"
               /\ run'.ret = 0 <=> run'.applied = Len(run.patchlist) ]_vars
    /\ [][ (run.pc = "post" /\ run'.pc # "post") =>
               /\ run'.pc = "idle"
               /\ run'.exit = IF run.ret = 0 \/ run.patchlist = << >>
                              THEN "0" ELSE "fatal" ]_vars
    /\ (run.pc = "loop") ~> (run.pc = "post")

\* a run that went twice through the loop, the counter having moved from the
\* first patch to the second, and ended in fatal()
C28_Witness ==
    /\ run.pc = "idle"
    /\ run.args.inplace
    /\ run.any_fallback
    /\ run.next = 2
    /\ run.ret # 0
    /\ run.applied = 1
    /\ Len(run.patchlist) = 2
    /\ run.exit = "fatal"

\* C29: whatever commits are missing, the lower end of the binary search
\* is above 0 only at a node the call has probed and found present, and the
\* pair search_best_base returns with an offset above 0 holds the commit of
\* such a node; the node of the baseline, offset 0, is never probed.
C29_ReturnedCommitWasProbed ==
    /\ srch.pc \in {"loop", "done"} /\ srch.nodes # << >> =>
           /\ 0 \notin srch.st.probed
           /\ srch.st.base > 0 =>
                  /\ srch.st.base \in srch.st.probed
                  /\ Probe(srch.nodes[srch.st.base + 1], gone, mainRef)
    /\ srch.pc = "done" /\ srch.result.offset > 0 =>
           /\ srch.result.offset = srch.st.base
           /\ srch.result.commit = srch.nodes[srch.result.offset + 1]
           /\ srch.result.offset \in srch.st.probed
           /\ Probe(srch.result.commit, gone, mainRef)

\* a search over a path with missing commits that made more than one probe,
\* found a commit missing, and returned a commit above the baseline
C29_Witness ==
    /\ srch.pc = "done"
    /\ srch.result.offset > 0
    /\ Cardinality(srch.st.probed) >= 2
    /\ \E i \in srch.st.probed : ~Probe(srch.nodes[i + 1], gone, mainRef)

\* ------------------------------------------------------------ caching and the result
\* the head of a genbranch run without cache: the patches of the series
\* applied on the commit the baseline names when the run starts
UncachedHead(baseline, series, ref) ==
    GitAm(Resolve(Rev(baseline), ref), series, StripDate(GenIdent), "am")

\* a clean genbranch run in the temporary worktree with the cache in use and
\* --baseline given: the cache is loaded and searched, the worktree is made at
\* the commit found, the rest of the series is applied, the cache is updated
\* and saved and the branch is pointed at the head
GenCached(baseline, series) ==
    LET ident == StripDate(GenIdent)
        loaded == [live |-> TRUE, ident |-> ident,
                   trees |-> WithIdent(Load(file), ident)]
        found == SearchBestBase(loaded.trees[ident], baseline, series, gone, mainRef)
        patchlist == IF found.offset # 0 THEN Remaining(series, found.offset) ELSE series
        head == GitAm(Resolve(found.commit, mainRef), patchlist, ident, "am")
        updated == [loaded EXCEPT !.trees[ident] =
                       UpdateTree(@, baseline, series, RevList(baseline, head, mainRef))]
    IN  /\ nUpd < MaxUpdates
        /\ cache' = updated
        /\ file' = Pickle(SCHEMA_VERSION, updated.trees)
        /\ branch' = head
        /\ nUpd' = nUpd + 1
        /\ last' = [op |-> "genbranch", baseline |-> baseline, hashes |-> series,
                    head |-> head]
        /\ UNCHANGED <<gone, mainRef, srch, sv, run, toolVars>>

NextCached ==
    \/ \E b \in BaselineArgs, series \in Series : GenCached(b, series)
    \/ \E b \in BaseCommits : MoveRef(b)

SpecCached == Init /\ [][NextCached]_vars

\* C30: the branch a clean genbranch run with the cache leaves is the one a
\* run without cache leaves: the series applied on the commit its baseline
\* argument names at the time of the run.
C30_CachedHeadIsUncachedHead ==
    last.op = "genbranch" =>
        branch = UncachedHead(last.baseline, last.hashes, mainRef)

====
